---- MODULE Spec2Model ----
(***************************************************************************)
(* A model of python-edlink (src/edlinkn8.py, src/testrom.py): the         *)
(* EverDrive N8 command protocol with its load_game handshake, and the BPS *)
(* patch decoder.                                                          *)
(*                                                                         *)
(* Representation.                                                         *)
(*  - bytes / bytearray : a sequence of integers 0..255 (1-based here,     *)
(*    0-based in the source; PyIndex / PySlice do the conversion).         *)
(*  - str               : a sequence of Unicode code points.               *)
(*  - a CRC32, whose value may exceed the checker's integer range, is kept *)
(*    as its four little-endian bytes; two CRCs are equal iff these are.   *)
(*  - an exception      : err # "none", and the operation stops.           *)
(*  - the serial link   : wire, the log of every port.write(chunk) and     *)
(*    every port.read(n) with the bytes the device delivered (fewer than n *)
(*    on a timeout).  The device is the environment: what it replies is    *)
(*    chosen with \E from the reply sets below.                            *)
(***************************************************************************)
EXTENDS Integers, Sequences, FiniteSets, TLC

VARIABLES
    op,          \* the top-level operation this run performs, with its arguments
    pc,          \* position in the running operation
    err,         \* "none", or the exception that ended the operation
    ret,         \* the value the operation returned (None until then)
    wire,        \* the serial link: every write and read, in order
    acks,        \* the ack bytes load_game read (it only logs them)
    map_idx,     \* load_game: the mapper index the device replied
    map_data,    \* map_load_sdc: the lookup table read from EDN8/MAPROUT.BIN
    map_path,    \* map_load_sdc: the bitstream path
    fileinfo,    \* fpg_init: what file_info returned
    rf_length,   \* read_file: bytes still to read
    rf_offset,   \* read_file: offset of the next sub-block
    rf_data,     \* read_file: the buffer
    openCount,   \* device side: successful opens minus successful closes
    patch,       \* BPSPatch(patch): the patch file's bytes
    source,      \* patch_rom(source): the source image's bytes
    bpc,         \* position in BPSPatch.__init__ / patch_rom
    berr,        \* "none", or the exception that ended them
    bps,         \* the BPSPatch object's fields, as far as they are assigned
    target,      \* patch_rom: the target bytearray
    apos,        \* patch_rom: position of the actions stream (io.BytesIO)
    output_offset,
    source_relative_offset,
    target_relative_offset,
    copy_left,   \* patch_rom: bytes the running TargetCopy has still to copy
    crcLog,      \* the CRC32 computations made so far, in order
    result,      \* what patch_rom returned (None until then)
    calls,       \* the calls of patch_rom on the object so far
    outcomes,    \* how the calls before the current one ended
    act          \* patch_rom: command and length of the action last read

linkVars == <<op, pc, err, ret, wire, acks, map_idx, map_data, map_path,
              fileinfo, rf_length, rf_offset, rf_data, openCount>>

bpsVars == <<patch, source, bpc, berr, bps, target, apos, output_offset,
             source_relative_offset, target_relative_offset, copy_left, crcLog, result,
             calls, outcomes, act>>

vars == <<linkVars, bpsVars>>

-----------------------------------------------------------------------------
(* Program constants.                                                      *)

None == -1
BLOCK_SIZE == 8192
FILE_BLOCK == 4096
MAP_TABLE_LEN == 4096
FAT_READ == 1
CMD_STATUS == 16
CMD_MEM_RD == 25
CMD_MEM_WR == 26
CMD_FPG_SDC == 31
CMD_F_FOPN == 201
CMD_F_FRD == 202
CMD_F_FCLOSE == 206
CMD_F_FINFO == 208
ADDR_FIFO == 25231360
ADDR_PRG == 0
ADDR_CHR == 8388608
CMD_SEL_GAME == 110
CMD_RUN_GAME == 115
PRG_DEFAULT == 4194304
DAT_BASE == 16

\* "EDN8/MAPROUT.BIN", "EDN8/MAPS/", ".RBF", "USB:" as code points
STR_MAPROUT == <<69, 68, 78, 56, 47, 77, 65, 80, 82, 79, 85, 84, 46, 66, 73, 78>>
STR_MAPS == <<69, 68, 78, 56, 47, 77, 65, 80, 83, 47>>
STR_RBF == <<46, 82, 66, 70>>
STR_USB == <<85, 83, 66, 58>>
STR_NES == <<78, 69, 83>>

-----------------------------------------------------------------------------
(* Python's integers, slices and byte conversions.                         *)

Min(a, b) == IF a < b THEN a ELSE b
Max(a, b) == IF a > b THEN a ELSE b

RECURSIVE BitAnd(_, _)
BitAnd(a, b) ==
    IF a = 0 \/ b = 0 THEN 0
    ELSE ((a % 2) * (b % 2)) + 2 * BitAnd(a \div 2, b \div 2)

RECURSIVE BitOr(_, _)
BitOr(a, b) ==
    IF a = 0 THEN b ELSE IF b = 0 THEN a
    ELSE Max(a % 2, b % 2) + 2 * BitOr(a \div 2, b \div 2)

RECURSIVE BitXor(_, _)
BitXor(a, b) ==
    IF a = 0 THEN b ELSE IF b = 0 THEN a
    ELSE (((a % 2) + (b % 2)) % 2) + 2 * BitXor(a \div 2, b \div 2)

\* s[i] of Python for 0 <= i < len(s); the callers raise IndexError otherwise
PyIndex(s, i) == s[i + 1]

\* the bounds of s[lo:hi] as Python clamps them (negative counts from the end)
PyClamp(n, i) == IF i < 0 THEN Max(n + i, 0) ELSE Min(i, n)

\* s[lo:hi]
PySlice(s, lo, hi) ==
    LET a == PyClamp(Len(s), lo)
        b == PyClamp(Len(s), hi)
    IN IF b <= a THEN <<>> ELSE SubSeq(s, a + 1, b)

\* s[lo:] and s[:hi]
PyFrom(s, lo) == PySlice(s, lo, Len(s))
PyUpTo(s, hi) == PySlice(s, 0, hi)

\* bytearray s after s[lo:hi] = new (the length changes when len(new) differs)
PySliceAssign(s, lo, hi, new) ==
    LET a == PyClamp(Len(s), lo)
        b == Max(a, PyClamp(Len(s), hi))
    IN SubSeq(s, 1, a) \o new \o SubSeq(s, b + 1, Len(s))

\* bytearray(n)
Zeros(n) == [i \in 1..n |-> 0]

\* v.to_bytes(n, "little")
RECURSIVE ToBytesLE(_, _)
ToBytesLE(v, n) == IF n = 0 THEN <<>> ELSE <<v % 256>> \o ToBytesLE(v \div 256, n - 1)

\* s.encode(): UTF-8 of a sequence of code points
Utf8Char(c) ==
    IF c < 128 THEN <<c>>
    ELSE IF c < 2048 THEN <<192 + (c \div 64), 128 + (c % 64)>>
    ELSE IF c < 65536 THEN <<224 + (c \div 4096), 128 + ((c \div 64) % 64), 128 + (c % 64)>>
    ELSE <<240 + (c \div 262144), 128 + ((c \div 4096) % 64),
           128 + ((c \div 64) % 64), 128 + (c % 64)>>

RECURSIVE Utf8Encode(_)
Utf8Encode(s) == IF s = <<>> THEN <<>> ELSE Utf8Char(Head(s)) \o Utf8Encode(Tail(s))

\* f"{n}": the decimal digits of n >= 0 as code points
RECURSIVE Decimal(_)
Decimal(n) == IF n < 10 THEN <<48 + n>> ELSE Decimal(n \div 10) \o <<48 + (n % 10)>>

-----------------------------------------------------------------------------
(* zlib.crc32 / binascii.crc32: the reflected CRC-32 (polynomial           *)
(* 0xEDB88320, initial value and final xor 0xFFFFFFFF), table driven.      *)
(* A 32-bit word is <<high 16 bits, low 16 bits>> while a table entry is   *)
(* computed and four little-endian bytes afterwards.                       *)

XorTab == [a \in 0..255 |-> [b \in 0..255 |-> BitXor(a, b)]]

RECURSIVE CrcBits(_, _)
CrcBits(w, k) ==
    IF k = 0 THEN w
    ELSE LET hi == w[1] \div 2
             lo == (w[2] \div 2) + (w[1] % 2) * 32768
         IN CrcBits(IF w[2] % 2 = 1 THEN <<BitXor(hi, 60856), BitXor(lo, 33568)>>
                                    ELSE <<hi, lo>>, k - 1)

CrcTable == [i \in 0..255 |->
                LET w == CrcBits(<<0, i>>, 8)
                IN <<w[2] % 256, w[2] \div 256, w[1] % 256, w[1] \div 256>>]

\* the CRC register after one more byte
CrcByte(c, byte) ==
    LET t == CrcTable[XorTab[c[1]][byte]]
    IN <<XorTab[t[1]][c[2]], XorTab[t[2]][c[3]], XorTab[t[3]][c[4]], t[4]>>

\* the CRC register after data[lo..hi], in order.  The range is halved and
\* the left half's register is computed (Len forces it) before the right
\* half starts, which keeps the evaluation shallow on long inputs.
RECURSIVE CrcUpdate(_, _, _, _)
CrcUpdate(c, data, lo, hi) ==
    IF lo > hi THEN c
    ELSE IF lo = hi THEN CrcByte(c, data[lo])
    ELSE LET mid == (lo + hi) \div 2
             left == CrcUpdate(c, data, lo, mid)
         IN IF Len(left) = 4 THEN CrcUpdate(left, data, mid + 1, hi) ELSE left

crc32(data) ==
    LET c == CrcUpdate(<<255, 255, 255, 255>>, data, 1, Len(data))
    IN <<255 - c[1], 255 - c[2], 255 - c[3], 255 - c[4]>>

-----------------------------------------------------------------------------
(* The result of a call on the link: the link's log after it, the          *)
(* exception it raised ("none" when it returned) and the value returned.   *)

Ok(w, v) == [wire |-> w, err |-> "none", val |-> v]
Raise(w, e) == [wire |-> w, err |-> e, val |-> None]

\* one port.write(chunk) and one port.read(n) on the log
WriteEntry(chunk) == [d |-> "w", n |-> Len(chunk), b |-> chunk]
ReadEntry(n, got) == [d |-> "r", n |-> n, b |-> got]

\* Everdrive.transmit_data: BLOCK_SIZE chunks, in order
\* transmit_data that does not advance its offset
RECURSIVE TransmitLoop_SameOffset(_, _, _, _)
TransmitLoop_SameOffset(w, data, offset, length) ==
    IF length > 0
    THEN LET block == IF BLOCK_SIZE > length THEN length ELSE BLOCK_SIZE
             chunk == PySlice(data, offset, offset + block)
         IN TransmitLoop_SameOffset(Append(w, WriteEntry(chunk)), data, offset, length - block)
    ELSE w

RECURSIVE TransmitLoop(_, _, _, _)
TransmitLoop(w, data, offset, length) ==
    IF length > 0
    THEN LET block == IF BLOCK_SIZE > length THEN length ELSE BLOCK_SIZE
             chunk == PySlice(data, offset, offset + block)
         IN TransmitLoop(Append(w, WriteEntry(chunk)), data, offset + block, length - block)
    ELSE w

transmit_data_from(w, data, offset, length) ==
    TransmitLoop(w, data, offset, IF length = 0 THEN Len(data) ELSE length)

transmit_data(w, data) == transmit_data_from(w, data, 0, 0)

\* Everdrive.receive_data: whatever port.read(length) returned
receive_data(w, length, got) == Ok(Append(w, ReadEntry(length, got)), got)

\* the frame with the command byte repeated instead of complemented
transmit_command_Repeated(w, command) ==
    transmit_data(w, <<43, BitXor(43, 255), command, command>>)

\* the frame with "+" repeated instead of complemented
transmit_command_PlusTwice(w, command) ==
    transmit_data(w, <<43, 43, command, BitXor(command, 255)>>)

\* Everdrive.transmit_command: the 4-byte frame
transmit_command(w, command) ==
    transmit_data(w, <<43, BitXor(43, 255), command, BitXor(command, 255)>>)

transmit_32(w, data) == transmit_data(w, ToBytesLE(data, 4))
transmit_16(w, data) == transmit_data(w, ToBytesLE(data, 2))
transmit_8(w, data) == transmit_data(w, <<BitAnd(data, 255)>>)

\* Everdrive.receive_8: bytearray.pop() of an empty reply raises IndexError
receive_8(w, got) ==
    LET r == receive_data(w, 1, got)
    IN IF Len(r.val) = 0 THEN Raise(r.wire, "IndexError")
       ELSE Ok(r.wire, r.val[Len(r.val)])

\* Everdrive.receive_16: result[1] << 8 | result[0]
receive_16(w, got) ==
    LET r == receive_data(w, 2, got)
    IN IF Len(r.val) < 2 THEN Raise(r.wire, "IndexError")
       ELSE Ok(r.wire, BitOr(PyIndex(r.val, 1) * 256, PyIndex(r.val, 0)))

\* Everdrive.receive_32
receive_32(w, got) ==
    LET r == receive_data(w, 4, got)
    IN IF Len(r.val) < 4 THEN Raise(r.wire, "IndexError")
       ELSE Ok(r.wire, BitOr(BitOr(PyIndex(r.val, 0), PyIndex(r.val, 1) * 256),
                             BitOr(PyIndex(r.val, 2) * 65536, PyIndex(r.val, 3) * 16777216)))

\* Everdrive.memory_read
memory_read(w, address, length, got) ==
    LET w1 == transmit_command(w, CMD_MEM_RD)
        w2 == transmit_32(w1, address)
        w3 == transmit_32(w2, length)
        w4 == transmit_8(w3, 0)
    IN receive_data(w4, length, got)

\* Everdrive.memory_write
memory_write(w, address, data) ==
    LET w1 == transmit_command(w, CMD_MEM_WR)
        w2 == transmit_32(w1, address)
        w3 == transmit_32(w2, Len(data))
        w4 == transmit_8(w3, 0)
    IN transmit_data(w4, data)

write_fifo(w, data) == memory_write(w, ADDR_FIFO, data)

\* Everdrive.transmit_string_fifo / transmit_string: len(message) as the
\* 16-bit prefix, then message.encode()
transmit_string_fifo(w, message) ==
    write_fifo(write_fifo(w, ToBytesLE(Len(message), 2)), Utf8Encode(message))

transmit_string(w, message) ==
    transmit_data(transmit_data(w, ToBytesLE(Len(message), 2)), Utf8Encode(message))

\* Everdrive.command: "*" and the command byte, to the FIFO
command(w, c) == write_fifo(w, <<42, c>>)

\* get_status comparing only the high nibble of the marker
get_status_HighNibble(w, got) ==
    LET w1 == transmit_command(w, CMD_STATUS)
        r == receive_16(w1, got)
    IN IF r.err # "none" THEN r
       ELSE IF BitAnd(r.val, 61440) # 40960 THEN Raise(r.wire, "UnexpectedResponse")
       ELSE Ok(r.wire, BitAnd(r.val, 255))

\* Everdrive.get_status
get_status(w, got) ==
    LET w1 == transmit_command(w, CMD_STATUS)
        r == receive_16(w1, got)
    IN IF r.err # "none" THEN r
       ELSE IF BitAnd(r.val, 65280) # 42240 THEN Raise(r.wire, "UnexpectedResponse")
       ELSE Ok(r.wire, BitAnd(r.val, 255))

\* Everdrive.check_status
check_status(w, got) ==
    LET r == get_status(w, got)
    IN IF r.err # "none" THEN r
       ELSE IF r.val # 0 THEN Raise(r.wire, "OperationError")
       ELSE Ok(r.wire, None)

\* Everdrive.open_file
open_file(w, path, mode, got) ==
    LET w1 == transmit_command(w, CMD_F_FOPN)
        w2 == transmit_8(w1, mode)
        w3 == transmit_string(w2, path)
    IN check_status(w3, got)

\* Everdrive.close_file
close_file(w, got) == check_status(transmit_command(w, CMD_F_FCLOSE), got)

\* bytes(data).decode(): UTF-8 with one- and two-byte forms; any other byte
\* sequence is reported as undecodable (the replies below stay in that range)
RECURSIVE Utf8Decode(_)
Utf8Decode(b) ==
    IF b = <<>> THEN [err |-> "none", val |-> <<>>]
    ELSE IF b[1] < 128
         THEN LET r == Utf8Decode(Tail(b))
              IN [err |-> r.err, val |-> <<b[1]>> \o r.val]
    ELSE IF b[1] >= 194 /\ b[1] < 224 /\ Len(b) >= 2 /\ b[2] >= 128 /\ b[2] < 192
         THEN LET r == Utf8Decode(Tail(Tail(b)))
              IN [err |-> r.err, val |-> <<(b[1] - 192) * 64 + (b[2] - 128)>> \o r.val]
    ELSE [err |-> "UnicodeDecodeError", val |-> <<>>]

\* Everdrive.receive_string; rep.nlen is the device's reply to the length
\* read and rep.name its reply to the payload read
receive_string(w, rep) ==
    LET l == receive_16(w, rep.nlen)
    IN IF l.err # "none" THEN l
       ELSE LET d == receive_data(l.wire, l.val, rep.name)
                s == Utf8Decode(d.val)
            IN IF s.err # "none" THEN Raise(d.wire, s.err) ELSE Ok(d.wire, s.val)

\* Everdrive.receive_file_info: size, date, time, attrib, name, in this order
receive_file_info(w, rep) ==
    LET size == receive_32(w, rep.size)
    IN IF size.err # "none" THEN size ELSE
       LET date == receive_16(size.wire, rep.date)
       IN IF date.err # "none" THEN date ELSE
          LET time == receive_16(date.wire, rep.time)
          IN IF time.err # "none" THEN time ELSE
             LET attrib == receive_8(time.wire, rep.attrib)
             IN IF attrib.err # "none" THEN attrib ELSE
                LET name == receive_string(attrib.wire, rep)
                IN IF name.err # "none" THEN name ELSE
                   Ok(name.wire, [name |-> name.val, size |-> size.val, date |-> date.val,
                                  time |-> time.val, attrib |-> attrib.val])

\* Everdrive.file_info
file_info(w, path, rep) ==
    LET w1 == transmit_command(w, CMD_F_FINFO)
        w2 == transmit_string(w1, path)
        response == receive_8(w2, rep.st)
    IN IF response.err # "none" THEN response
       ELSE IF response.val # 0 THEN Raise(response.wire, "FileAccessError")
       ELSE receive_file_info(response.wire, rep)

-----------------------------------------------------------------------------
(* NesRom: the image header parse and the identifier blob.                 *)

NesRomError(e) == [err |-> e]

\* NesRom.__init__ taking the CHR bytes from where the PRG bytes start
NesRom_ChrOverPrg(rom, name) ==
    LET ines == PyUpTo(rom, 32)
    IN IF PySlice(ines, 0, 3) # STR_NES THEN NesRomError("RuntimeError")
       ELSE IF Len(rom) < 8 THEN NesRomError("IndexError")
       ELSE
       LET prg0 == PyIndex(rom, 4) * 1024 * 16
           chr_size == PyIndex(rom, 5) * 1024 * 8
           prg_size == IF prg0 = 0 THEN PRG_DEFAULT ELSE prg0
           mapper == BitOr(PyIndex(rom, 6) \div 16, BitAnd(PyIndex(rom, 7), 240))
           mir0 == IF BitAnd(PyIndex(rom, 6), 1) # 0 THEN "V" ELSE "H"
           mirroring == IF BitAnd(PyIndex(rom, 6), 8) # 0 THEN "4" ELSE mir0
       IN IF mapper = 255 THEN NesRomError("RuntimeError")
          ELSE [err |-> "none", rom_type |-> 0, name |-> name, rom |-> rom,
                size |-> Len(rom), ines |-> ines, dat_base |-> DAT_BASE,
                prg_size |-> prg_size, chr_size |-> chr_size, srm_size |-> 8192,
                mapper |-> mapper, mirroring |-> mirroring,
                bat_ram |-> (BitAnd(PyIndex(rom, 6), 2) # 0),
                crc |-> crc32(PyFrom(rom, DAT_BASE)),
                prg |-> PySlice(rom, 16, 16 + prg_size),
                chr |-> PySlice(rom, 16, 16 + chr_size)]

\* NesRom.__init__
NesRom(rom, name) ==
    LET ines == PyUpTo(rom, 32)
    IN IF PySlice(ines, 0, 3) # STR_NES THEN NesRomError("RuntimeError")
       ELSE IF Len(rom) < 8 THEN NesRomError("IndexError")
       ELSE
       LET prg0 == PyIndex(rom, 4) * 1024 * 16
           chr_size == PyIndex(rom, 5) * 1024 * 8
           prg_size == IF prg0 = 0 THEN PRG_DEFAULT ELSE prg0
           mapper == BitOr(PyIndex(rom, 6) \div 16, BitAnd(PyIndex(rom, 7), 240))
           mir0 == IF BitAnd(PyIndex(rom, 6), 1) # 0 THEN "V" ELSE "H"
           mirroring == IF BitAnd(PyIndex(rom, 6), 8) # 0 THEN "4" ELSE mir0
       IN IF mapper = 255 THEN NesRomError("RuntimeError")
          ELSE [err |-> "none", rom_type |-> 0, name |-> name, rom |-> rom,
                size |-> Len(rom), ines |-> ines, dat_base |-> DAT_BASE,
                prg_size |-> prg_size, chr_size |-> chr_size, srm_size |-> 8192,
                mapper |-> mapper, mirroring |-> mirroring,
                bat_ram |-> (BitAnd(PyIndex(rom, 6), 2) # 0),
                crc |-> crc32(PyFrom(rom, DAT_BASE)),
                prg |-> PySlice(rom, 16, 16 + prg_size),
                chr |-> PySlice(rom, 16 + prg_size, 16 + prg_size + chr_size)]

\* NesRom.get_rom_id: header bytes, size, CRC32 and the constant 16
get_rom_id(r) ==
    LET offset == Len(r.ines)
        d0 == Zeros(offset + 12)
        d1 == PySliceAssign(d0, 0, offset, r.ines)
        d2 == PySliceAssign(d1, offset, offset + 4, ToBytesLE(r.size, 4))
        d3 == PySliceAssign(d2, offset + 4, offset + 8, r.crc)
    IN PySliceAssign(d3, offset + 8, Len(d3), ToBytesLE(16, 4))

-----------------------------------------------------------------------------
(* What the environment supplies: the images handed to load_game and the   *)
(* device's replies.  A reply shorter than the read is a timeout.          *)

MaxRomData == 3      \* data bytes after the 16-byte header of a model image
MaxBlocks == 2       \* read_file lengths reach MaxBlocks sub-blocks and one byte

\* an image header with the given PRG/CHR bank counts and flag bytes
RomHeader(p, c, f6, f7) == <<78, 69, 83, 26, p, c, f6, f7, 0, 0, 0, 0, 0, 0, 0, 0>>

RomPayload(n) == [i \in 1..n |-> (16 * i + 1) % 256]

\* images as files hold them; short files are accepted by NesRom (slices clamp)
RawRoms ==
    { RomHeader(0, 0, 0, 0) \o RomPayload(MaxRomData),
      RomHeader(2, 1, 16, 0),
      RomHeader(1, 1, 1, 0) \o RomPayload(16384 + MaxRomData) }

\* image names: "a", and a name with a non-ASCII character ("é.n")
RomNames == { <<97>>, <<233, 46, 110>> }

\* the NesRom objects load_game is called with
Roms == { r \in { NesRom(raw, name) : raw \in RawRoms, name \in RomNames } : r.err = "none" }

AckReplies == { <<>>, <<0>>, <<1>> }
MapIdxReplies == { <<>>, <<5>>, <<5, 0>>, <<50, 0>>, <<255, 0>>, <<255, 15>>, <<0, 16>> }
StatusReplies == { <<>>, <<0>>, <<0, 165>>, <<3, 165>>, <<52, 18>> }

\* the bytes of a file on the device: byte i (0-based) is i mod 256
FileBytes(n) == [i \in 1..n |-> (i - 1) % 256]

\* the replies to a read of n data bytes: all of them, or a timeout
DataReplies(n) == { FileBytes(k) : k \in { n, n - 1, 0 } \cap (0..n) }

FileInfoOk(size) ==
    [st |-> <<0>>, size |-> size, date |-> <<33, 90>>, time |-> <<0, 96>>,
     attrib |-> <<32>>, nlen |-> <<7, 0>>, name |-> <<48, 48, 53, 46, 82, 66, 70>>]

FileInfoReplies ==
    { FileInfoOk(<<16, 39, 1, 0>>), FileInfoOk(<<0, 0, 0, 0>>),
      [FileInfoOk(<<16, 39, 1, 0>>) EXCEPT !.st = <<>>],
      [FileInfoOk(<<16, 39, 1, 0>>) EXCEPT !.st = <<4>>],
      [FileInfoOk(<<16, 39, 1, 0>>) EXCEPT !.size = <<16, 39>>],
      [FileInfoOk(<<16, 39, 1, 0>>) EXCEPT !.time = <<0>>],
      [FileInfoOk(<<16, 39, 1, 0>>) EXCEPT !.attrib = <<>>],
      [FileInfoOk(<<16, 39, 1, 0>>) EXCEPT !.nlen = <<7>>],
      [FileInfoOk(<<16, 39, 1, 0>>) EXCEPT !.name = <<48, 48>>],
      [FileInfoOk(<<16, 39, 1, 0>>) EXCEPT !.name = <<>>] }

-----------------------------------------------------------------------------
(* Everdrive.load_game, statement by statement; map_load_sdc and fpg_init  *)
(* are the calls it ends with.                                             *)

\* a call whose exception is swallowed: the operation goes on
Goto_Swallow(r, next) ==
    /\ wire' = r.wire
    /\ err' = r.err
    /\ pc' = next

\* the link and the position after a call: on an exception the operation ends
Goto(r, next) ==
    /\ wire' = r.wire
    /\ err' = r.err
    /\ pc' = IF r.err = "none" THEN next ELSE "error"

\* the ack byte load_game reads and logs
LogAck(r) == acks' = IF r.err = "none" THEN Append(acks, r.val) ELSE acks

\* the device's open files after an open or a close it acknowledged
DeviceOpen(r) == openCount' = IF r.err = "none" THEN openCount + 1 ELSE openCount
DeviceClose(r) == openCount' = IF r.err = "none" THEN openCount - 1 ELSE openCount

\* self.command(CMD_SEL_GAME)
LG_Select ==
    /\ pc = "lg_select"
    /\ wire' = command(wire, CMD_SEL_GAME)
    /\ pc' = "lg_name"
    /\ UNCHANGED <<bpsVars, op, err, ret, acks, map_idx, map_data, map_path, fileinfo,
                   rf_length, rf_offset, rf_data, openCount>>

\* self.transmit_string_fifo(f"USB:{rom.name}"); self.receive_8()
LG_Name ==
    /\ pc = "lg_name"
    /\ \E got \in AckReplies :
          LET r == receive_8(transmit_string_fifo(wire, STR_USB \o op.rom.name), got)
          IN Goto(r, "lg_id") /\ LogAck(r)
    /\ UNCHANGED <<bpsVars, op, ret, map_idx, map_data, map_path, fileinfo,
                   rf_length, rf_offset, rf_data, openCount>>

\* self.write_fifo(rom.get_rom_id()); self.receive_8()
LG_RomId ==
    /\ pc = "lg_id"
    /\ \E got \in AckReplies :
          LET r == receive_8(write_fifo(wire, get_rom_id(op.rom)), got)
          IN Goto(r, "lg_mapidx") /\ LogAck(r)
    /\ UNCHANGED <<bpsVars, op, ret, map_idx, map_data, map_path, fileinfo,
                   rf_length, rf_offset, rf_data, openCount>>

\* map_idx = self.receive_16()
LG_MapIdx ==
    /\ pc = "lg_mapidx"
    /\ \E got \in MapIdxReplies :
          LET r == receive_16(wire, got)
          IN Goto(r, "lg_run") /\ map_idx' = r.val
    /\ UNCHANGED <<bpsVars, op, ret, acks, map_data, map_path, fileinfo,
                   rf_length, rf_offset, rf_data, openCount>>

\* self.command(CMD_RUN_GAME); self.receive_8()
LG_Run ==
    /\ pc = "lg_run"
    /\ \E got \in AckReplies :
          LET r == receive_8(command(wire, CMD_RUN_GAME), got)
          IN Goto(r, "lg_prg") /\ LogAck(r)
    /\ UNCHANGED <<bpsVars, op, ret, map_idx, map_data, map_path, fileinfo,
                   rf_length, rf_offset, rf_data, openCount>>

\* self.memory_write(rom.ADDR_PRG, rom.prg)
LG_WritePrg ==
    /\ pc = "lg_prg"
    /\ wire' = memory_write(wire, ADDR_PRG, op.rom.prg)
    /\ pc' = "lg_chr"
    /\ UNCHANGED <<bpsVars, op, err, ret, acks, map_idx, map_data, map_path, fileinfo,
                   rf_length, rf_offset, rf_data, openCount>>

\* the CHR write sent to the PRG address
LG_WriteChr_ToPrg ==
    /\ pc = "lg_chr"
    /\ wire' = memory_write(wire, ADDR_PRG, op.rom.chr)
    /\ pc' = "mls_open"
    /\ UNCHANGED <<bpsVars, op, err, ret, acks, map_idx, map_data, map_path, fileinfo,
                   rf_length, rf_offset, rf_data, openCount>>

\* self.memory_write(rom.ADDR_CHR, rom.chr)
LG_WriteChr ==
    /\ pc = "lg_chr"
    /\ wire' = memory_write(wire, ADDR_CHR, op.rom.chr)
    /\ pc' = "mls_open"
    /\ UNCHANGED <<bpsVars, op, err, ret, acks, map_idx, map_data, map_path, fileinfo,
                   rf_length, rf_offset, rf_data, openCount>>

\* map_load_sdc: self.open_file("EDN8/MAPROUT.BIN", FAT_READ)
MLS_Open ==
    /\ pc = "mls_open"
    /\ \E got \in StatusReplies :
          LET r == open_file(wire, STR_MAPROUT, FAT_READ, got)
          IN Goto(r, "mls_read") /\ DeviceOpen(r)
    /\ UNCHANGED <<bpsVars, op, ret, acks, map_idx, map_data, map_path, fileinfo,
                   rf_length, rf_offset, rf_data>>

\* read_file, up to its loop: the command, the length, the zeroed buffer
ReadFileBegin(length) ==
    /\ wire' = transmit_32(transmit_command(wire, CMD_F_FRD), length)
    /\ rf_length' = length
    /\ rf_offset' = 0
    /\ rf_data' = Zeros(length)
    /\ pc' = "rf_loop"

\* map_load_sdc: map_data = self.read_file(4096), the call
MLS_Read ==
    /\ pc = "mls_read"
    /\ ReadFileBegin(MAP_TABLE_LEN)
    /\ UNCHANGED <<bpsVars, op, err, ret, acks, map_idx, map_data, map_path, fileinfo, openCount>>

\* read_file reading the sub-block whatever the status byte says
ReadFileBlock_IgnoreStatus ==
    /\ pc = "rf_loop"
    /\ rf_length > 0
    /\ LET block == IF FILE_BLOCK > rf_length THEN rf_length ELSE FILE_BLOCK
       IN \E st \in AckReplies :
             LET response == receive_8(wire, st)
             IN IF response.err # "none"
                THEN Goto(response, "rf_loop") /\ UNCHANGED <<rf_length, rf_offset, rf_data>>
                ELSE \E got \in DataReplies(block) :
                        LET d == receive_data(response.wire, block, got)
                        IN /\ Goto(d, "rf_loop")
                           /\ rf_data' = PySliceAssign(rf_data, rf_offset, rf_offset + block, d.val)
                           /\ rf_offset' = rf_offset + block
                           /\ rf_length' = rf_length - block
    /\ UNCHANGED <<bpsVars, op, ret, acks, map_idx, map_data, map_path, fileinfo, openCount>>

\* read_file: one turn of the loop: the status byte, then the sub-block
ReadFileBlock ==
    /\ pc = "rf_loop"
    /\ rf_length > 0
    /\ LET block == IF FILE_BLOCK > rf_length THEN rf_length ELSE FILE_BLOCK
       IN \E st \in AckReplies :
             LET response == receive_8(wire, st)
             IN IF response.err # "none"
                THEN Goto(response, "rf_loop") /\ UNCHANGED <<rf_length, rf_offset, rf_data>>
                ELSE IF response.val # 0
                THEN /\ Goto(Raise(response.wire, "FileReadError"), "rf_loop")
                     /\ UNCHANGED <<rf_length, rf_offset, rf_data>>
                ELSE \E got \in DataReplies(block) :
                        LET d == receive_data(response.wire, block, got)
                        IN /\ Goto(d, "rf_loop")
                           /\ rf_data' = PySliceAssign(rf_data, rf_offset, rf_offset + block, d.val)
                           /\ rf_offset' = rf_offset + block
                           /\ rf_length' = rf_length - block
    /\ UNCHANGED <<bpsVars, op, ret, acks, map_idx, map_data, map_path, fileinfo, openCount>>

\* read_file: return data, to map_load_sdc or to the caller of the operation
ReadFileReturn ==
    /\ pc = "rf_loop"
    /\ rf_length <= 0
    /\ IF op.name = "load_game"
       THEN map_data' = rf_data /\ pc' = "mls_close" /\ ret' = ret
       ELSE ret' = rf_data /\ pc' = "done" /\ map_data' = map_data
    /\ UNCHANGED <<bpsVars, op, err, wire, acks, map_idx, map_path, fileinfo,
                   rf_length, rf_offset, rf_data, openCount>>

\* map_load_sdc leaving the lookup-table file open
MLS_Close_Skipped ==
    /\ pc = "mls_close"
    /\ pc' = "mls_path"
    /\ UNCHANGED <<bpsVars, op, err, ret, wire, acks, map_idx, map_data, map_path, fileinfo,
                   rf_length, rf_offset, rf_data, openCount>>

\* map_load_sdc: self.close_file()
MLS_Close ==
    /\ pc = "mls_close"
    /\ \E got \in StatusReplies :
          LET r == close_file(wire, got)
          IN Goto(r, "mls_path") /\ DeviceClose(r)
    /\ UNCHANGED <<bpsVars, op, ret, acks, map_idx, map_data, map_path, fileinfo,
                   rf_length, rf_offset, rf_data>>

\* the bitstream path of package number map_pkg: three digits, zero padded
\* the path padded with one zero at most
MapPath_OneZero(map_pkg) ==
    LET p0 == STR_MAPS
        p1 == IF map_pkg < 10 THEN p0 \o <<48>> ELSE p0
    IN p1 \o Decimal(map_pkg) \o STR_RBF

MapPath(map_pkg) ==
    LET p0 == STR_MAPS
        p1 == IF map_pkg < 100 THEN p0 \o <<48>> ELSE p0
        p2 == IF map_pkg < 10 THEN p1 \o <<48>> ELSE p1
    IN p2 \o Decimal(map_pkg) \o STR_RBF

\* map_load_sdc: map_pkg = map_data[map_id] and the path
MLS_Path ==
    /\ pc = "mls_path"
    /\ IF map_idx >= Len(map_data)
       THEN pc' = "error" /\ err' = "IndexError" /\ map_path' = map_path
       ELSE pc' = "fpg_info" /\ err' = err /\ map_path' = MapPath(PyIndex(map_data, map_idx))
    /\ UNCHANGED <<bpsVars, op, ret, wire, acks, map_idx, map_data, fileinfo,
                   rf_length, rf_offset, rf_data, openCount>>

\* fpg_init: fileinfo = self.file_info(path)
FPG_Info ==
    /\ pc = "fpg_info"
    /\ \E rep \in FileInfoReplies :
          LET r == file_info(wire, map_path, rep)
          IN Goto(r, "fpg_open") /\ fileinfo' = IF r.err = "none" THEN r.val ELSE fileinfo
    /\ UNCHANGED <<bpsVars, op, ret, acks, map_idx, map_data, map_path,
                   rf_length, rf_offset, rf_data, openCount>>

\* fpg_init: self.open_file(path, FAT_READ)
FPG_Open ==
    /\ pc = "fpg_open"
    /\ \E got \in StatusReplies :
          LET r == open_file(wire, map_path, FAT_READ, got)
          IN Goto(r, "fpg_cfg") /\ DeviceOpen(r)
    /\ UNCHANGED <<bpsVars, op, ret, acks, map_idx, map_data, map_path, fileinfo,
                   rf_length, rf_offset, rf_data>>

\* fpg_init: the configuration-load command with the file's size, then the
\* status check; load_game returns
FPG_Config ==
    /\ pc = "fpg_cfg"
    /\ \E got \in StatusReplies :
          LET w1 == transmit_command(wire, CMD_FPG_SDC)
              w2 == transmit_32(w1, fileinfo.size)
              w3 == transmit_8(w2, 0)
          IN Goto(check_status(w3, got), "done")
    /\ UNCHANGED <<bpsVars, op, ret, acks, map_idx, map_data, map_path, fileinfo,
                   rf_length, rf_offset, rf_data, openCount>>

LoadGameNext ==
    \/ LG_Select \/ LG_Name \/ LG_RomId \/ LG_MapIdx \/ LG_Run
    \/ LG_WritePrg \/ LG_WriteChr
    \/ MLS_Open \/ MLS_Read \/ ReadFileBlock \/ ReadFileReturn \/ MLS_Close \/ MLS_Path
    \/ FPG_Info \/ FPG_Open \/ FPG_Config

LinkInit(o, start) ==
    /\ op = o
    /\ pc = start
    /\ err = "none"
    /\ ret = None
    /\ wire = <<>>
    /\ acks = <<>>
    /\ map_idx = None
    /\ map_data = <<>>
    /\ map_path = <<>>
    /\ fileinfo = None
    /\ rf_length = 0
    /\ rf_offset = 0
    /\ rf_data = <<>>
    /\ openCount = 0

\* everdrive.load_game(rom) on a freshly opened link
\* the fields of a BPSPatch object before __init__ assigns them
NoFields ==
    [source_checksum |-> <<>>, target_checksum |-> <<>>, patch_checksum |-> <<>>,
     source_size |-> None, target_size |-> None, metadata_size |-> None,
     metadata |-> <<>>, actions |-> <<>>]

\* the decoder's variables before BPSPatch(patch) and patch_rom(source) run
\* patch_rom's locals command and length before its loop has read an action
NoAction == [command |-> None, length |-> None]

BpsInit(p, src, start) ==
    /\ patch = p
    /\ source = src
    /\ bpc = start
    /\ berr = "none"
    /\ bps = NoFields
    /\ target = <<>>
    /\ apos = 0
    /\ output_offset = 0
    /\ source_relative_offset = 0
    /\ target_relative_offset = 0
    /\ copy_left = 0
    /\ crcLog = <<>>
    /\ result = None
    /\ calls = 0
    /\ outcomes = <<>>
    /\ act = NoAction

\* no patch is being applied
NoPatch == BpsInit(<<>>, <<>>, "idle")

Init ==
    /\ \E r \in Roms : LinkInit([name |-> "load_game", rom |-> r], "lg_select")
    /\ NoPatch

Next == LoadGameNext

Spec == Init /\ [][Next]_vars

-----------------------------------------------------------------------------
(* The status query on its own, for every 16-bit reply and for timeouts.   *)

\* the device's reply to a 2-byte read: any 16-bit value, low byte first
Status16Replies == { <<r % 256, r \div 256>> : r \in 0..65535 } \cup { <<>>, <<165>> }

\* the call returned v, or raised
Return(r) ==
    /\ wire' = r.wire
    /\ err' = r.err
    /\ ret' = r.val
    /\ pc' = IF r.err = "none" THEN "done" ELSE "error"
    /\ UNCHANGED <<bpsVars, op, acks, map_idx, map_data, map_path, fileinfo,
                   rf_length, rf_offset, rf_data, openCount>>

\* everdrive.get_status()
Call_get_status ==
    /\ pc = "call" /\ op.name = "get_status"
    /\ \E got \in Status16Replies : Return(get_status(wire, got))

\* everdrive.check_status()
Call_check_status ==
    /\ pc = "call" /\ op.name = "check_status"
    /\ \E got \in Status16Replies : Return(check_status(wire, got))

StatusInit ==
    /\ \E n \in {"get_status", "check_status"} : LinkInit([name |-> n], "call")
    /\ NoPatch

StatusNext == Call_get_status \/ Call_check_status

SpecStatus == StatusInit /\ [][StatusNext]_vars

-----------------------------------------------------------------------------
(* The receive operations one at a time, with replies that may be short.   *)

Reply8 == { <<>>, <<0>>, <<7>> }
Reply16 == { <<>>, <<52>>, <<52, 18>> }
Reply32 == { <<>>, <<1, 2, 3>>, <<16, 39, 1, 0>> }

\* the lengths memory_read and read_file are called with
MemReadLengths == { 0, 1, 256 }
ReadLengths == { k * FILE_BLOCK + d : k \in 0..MaxBlocks, d \in {0, 1} }

Call_receive_8 ==
    /\ pc = "call" /\ op.name = "receive_8"
    /\ \E got \in Reply8 : Return(receive_8(wire, got))

Call_receive_16 ==
    /\ pc = "call" /\ op.name = "receive_16"
    /\ \E got \in Reply16 : Return(receive_16(wire, got))

Call_receive_32 ==
    /\ pc = "call" /\ op.name = "receive_32"
    /\ \E got \in Reply32 : Return(receive_32(wire, got))

Call_memory_read ==
    /\ pc = "call" /\ op.name = "memory_read"
    /\ \E got \in DataReplies(op.length) :
          Return(memory_read(wire, op.address, op.length, got))

Call_receive_string ==
    /\ pc = "call" /\ op.name = "receive_string"
    /\ \E rep \in FileInfoReplies : Return(receive_string(wire, rep))

Call_file_info ==
    /\ pc = "call" /\ op.name = "file_info"
    /\ \E rep \in FileInfoReplies : Return(file_info(wire, op.path, rep))

\* everdrive.read_file(length), the call; its loop is ReadFileBlock
Call_read_file ==
    /\ pc = "call" /\ op.name = "read_file"
    /\ ReadFileBegin(op.length)
    /\ UNCHANGED <<bpsVars, op, err, ret, acks, map_idx, map_data, map_path, fileinfo, openCount>>

LinkOps ==
    { [name |-> n] : n \in {"receive_8", "receive_16", "receive_32", "receive_string"} }
    \cup { [name |-> "memory_read", address |-> 25174016, length |-> l] : l \in MemReadLengths }
    \cup { [name |-> "read_file", length |-> l] : l \in ReadLengths }
    \cup { [name |-> "file_info", path |-> MapPath(5)] }

LinkOpInit ==
    /\ \E o \in LinkOps : LinkInit(o, "call")
    /\ NoPatch

LinkOpNext ==
    \/ Call_receive_8 \/ Call_receive_16 \/ Call_receive_32 \/ Call_memory_read
    \/ Call_receive_string \/ Call_file_info
    \/ Call_read_file \/ ReadFileBlock \/ ReadFileReturn

SpecLink == LinkOpInit /\ [][LinkOpNext]_vars

-----------------------------------------------------------------------------
(* The BPS patch decoder: read_number_io, BPSPatch.__init__ and patch_rom. *)

MAGIC_HEADER == <<66, 80, 83, 49>>

\* convert_uint of a slice of at most four bytes, as four little-endian bytes
convert_uint(b) == b \o Zeros(4 - Len(b))

\* read_number_io on the stream b at position pos: the number (None when the
\* stream ends inside it) and the position afterwards
\* read_number_io without the bias: plain base-128
RECURSIVE ReadNumberLoop_NoBias(_, _, _, _)
ReadNumberLoop_NoBias(b, pos, data, shift) ==
    IF pos >= Len(b) THEN [val |-> None, pos |-> pos]
    ELSE LET x == PyIndex(b, pos)
             data1 == data + BitAnd(x, 127) * shift
         IN IF BitAnd(x, 128) # 0 THEN [val |-> data1, pos |-> pos + 1]
            ELSE ReadNumberLoop_NoBias(b, pos + 1, data1, shift * 128)

\* read_number_io adding the shift before multiplying it
RECURSIVE ReadNumberLoop_AddFirst(_, _, _, _)
ReadNumberLoop_AddFirst(b, pos, data, shift) ==
    IF pos >= Len(b) THEN [val |-> None, pos |-> pos]
    ELSE LET x == PyIndex(b, pos)
             data1 == data + BitAnd(x, 127) * shift
         IN IF BitAnd(x, 128) # 0 THEN [val |-> data1, pos |-> pos + 1]
            ELSE ReadNumberLoop_AddFirst(b, pos + 1, data1 + shift, shift * 128)

RECURSIVE ReadNumberLoop(_, _, _, _)
ReadNumberLoop(b, pos, data, shift) ==
    IF pos >= Len(b) THEN [val |-> None, pos |-> pos]
    ELSE LET x == PyIndex(b, pos)
             data1 == data + BitAnd(x, 127) * shift
         IN IF BitAnd(x, 128) # 0 THEN [val |-> data1, pos |-> pos + 1]
            ELSE LET shift1 == shift * 128
                 IN ReadNumberLoop(b, pos + 1, data1 + shift1, shift1)

read_number_io(b, pos) == ReadNumberLoop(b, pos, 0, 1)

\* read_number: the number at the start of b and the remaining bytes
read_number(b) ==
    LET r == read_number_io(b, 0)
    IN [val |-> r.val, rest |-> PyFrom(b, r.pos)]

\* a slice bound that may be None
PyBound(i, default) == IF i = None THEN default ELSE i

\* __init__ without the magic header check
InitMagic_Unchecked ==
    /\ bpc = "init"
    /\ bpc' = "init_checksum"
    /\ UNCHANGED <<linkVars, act, calls, outcomes, patch, source, berr, bps, target, apos, output_offset,
                   source_relative_offset, target_relative_offset, copy_left, crcLog, result>>

\* __init__: the magic header check
InitMagic ==
    /\ bpc = "init"
    /\ IF PyUpTo(patch, 4) # MAGIC_HEADER
       THEN bpc' = "error" /\ berr' = "InvalidPatch"
       ELSE bpc' = "init_checksum" /\ berr' = berr
    /\ UNCHANGED <<linkVars, act, calls, outcomes, patch, source, bps, target, apos, output_offset,
                   source_relative_offset, target_relative_offset, copy_left, crcLog, result>>

\* the patch checksum taken over the bytes before the whole checksum block
ChecksummedPart_BeforeBlock(p) == PyUpTo(p, -12)

\* the bytes of the patch that its stored patch checksum covers
ChecksummedPart(p) == PyUpTo(p, -4)

\* __init__: the three stored checksums and the patch checksum check
InitChecksum ==
    /\ bpc = "init_checksum"
    /\ LET calculated_checksum == crc32(ChecksummedPart(patch))
           patch_checksum == convert_uint(PyFrom(patch, -4))
       IN /\ bps' = [bps EXCEPT !.source_checksum = convert_uint(PySlice(patch, -12, -8)),
                                !.target_checksum = convert_uint(PySlice(patch, -8, -4)),
                                !.patch_checksum = patch_checksum]
          /\ crcLog' = Append(crcLog, "patch")
          /\ IF patch_checksum # calculated_checksum
             THEN bpc' = "error" /\ berr' = "InvalidPatch"
             ELSE bpc' = "init_parse" /\ berr' = berr
    /\ UNCHANGED <<linkVars, act, calls, outcomes, patch, source, target, apos, output_offset,
                   source_relative_offset, target_relative_offset, copy_left, result>>

\* __init__: the sizes, the metadata and the action stream
InitParse ==
    /\ bpc = "init_parse"
    /\ LET n1 == read_number(PyFrom(patch, 4))
           n2 == read_number(n1.rest)
           n3 == read_number(n2.rest)
           metadata == Utf8Decode(PyUpTo(n3.rest, PyBound(n3.val, Len(n3.rest))))
       IN /\ bps' = [bps EXCEPT !.source_size = n1.val, !.target_size = n2.val,
                                !.metadata_size = n3.val,
                                !.metadata = metadata.val,
                                !.actions = IF metadata.err = "none"
                                            THEN PySlice(n3.rest, PyBound(n3.val, 0), -12)
                                            ELSE <<>>]
          /\ IF metadata.err # "none"
             THEN bpc' = "error" /\ berr' = metadata.err
             ELSE bpc' = "constructed" /\ berr' = berr
    /\ UNCHANGED <<linkVars, act, calls, outcomes, patch, source, target, apos, output_offset,
                   source_relative_offset, target_relative_offset, copy_left, crcLog, result>>

MaxCalls == 2         \* calls of patch_rom on one BPSPatch object

\* patch_rom with the actions stream kept on the object: a second call
\* finds it where the first call left it
PatchRomBegin_StreamKept ==
    /\ bpc = "constructed"
    /\ calls < MaxCalls
    /\ IF Len(source) # bps.source_size
       THEN /\ bpc' = "error" /\ berr' = "InvalidPatch"
            /\ UNCHANGED <<target, crcLog>>
       ELSE /\ crcLog' = Append(crcLog, "source")
            /\ IF crc32(source) # bps.source_checksum
               THEN bpc' = "error" /\ berr' = "InvalidPatch" /\ target' = target
               ELSE IF bps.target_size = None
               THEN bpc' = "error" /\ berr' = "TypeError" /\ target' = target
               ELSE bpc' = "loop" /\ berr' = berr /\ target' = Zeros(bps.target_size)
    /\ apos' = apos
    /\ output_offset' = 0
    /\ source_relative_offset' = 0
    /\ target_relative_offset' = 0
    /\ copy_left' = 0
    /\ calls' = calls + 1
    /\ act' = NoAction
    /\ UNCHANGED <<linkVars, outcomes, patch, source, bps, result>>

\* patch_rom up to its loop: the source size and checksum checks, the zeroed
\* target, the stream and the three offsets
PatchRomBegin ==
    /\ bpc = "constructed"
    /\ calls < MaxCalls
    /\ IF Len(source) # bps.source_size
       THEN /\ bpc' = "error" /\ berr' = "InvalidPatch"
            /\ UNCHANGED <<target, crcLog>>
       ELSE /\ crcLog' = Append(crcLog, "source")
            /\ IF crc32(source) # bps.source_checksum
               THEN bpc' = "error" /\ berr' = "InvalidPatch" /\ target' = target
               ELSE IF bps.target_size = None
               THEN bpc' = "error" /\ berr' = "TypeError" /\ target' = target
               ELSE bpc' = "loop" /\ berr' = berr /\ target' = Zeros(bps.target_size)
    /\ apos' = 0
    /\ output_offset' = 0
    /\ source_relative_offset' = 0
    /\ target_relative_offset' = 0
    /\ copy_left' = 0
    /\ calls' = calls + 1
    /\ act' = NoAction
    /\ UNCHANGED <<linkVars, outcomes, patch, source, bps, result>>

\* the decoder's local state as one value
Decoder(t, p, oo, sro, tro, cl) ==
    [target |-> t, apos |-> p, output_offset |-> oo, source_relative_offset |-> sro,
     target_relative_offset |-> tro, copy_left |-> cl, err |-> "none", done |-> FALSE]

\* the signed relative offset a SourceCopy / TargetCopy carries
SignedOffset(data) == (IF BitAnd(data, 1) # 0 THEN -1 ELSE 1) * (data \div 2)

\* DecodeAction with one cursor shared by the two copy actions: SourceCopy
\* moves target_relative_offset as well
DecodeAction_SharedCursor(d, actions, src) ==
    LET a == read_number_io(actions, d.apos)
        cmd == BitAnd(a.val, 3)
        length == (a.val \div 4) + 1
        oo == d.output_offset
    IN IF a.val = None THEN [d EXCEPT !.apos = a.pos, !.done = TRUE]
       ELSE IF cmd = 0
       THEN [d EXCEPT !.apos = a.pos,
                      !.target = PySliceAssign(d.target, oo, oo + length,
                                               PySlice(src, oo, oo + length)),
                      !.output_offset = oo + length]
       ELSE IF cmd = 1
       THEN LET lit == PySlice(actions, a.pos, a.pos + length)
            IN [d EXCEPT !.apos = a.pos + Len(lit),
                         !.target = PySliceAssign(d.target, oo, oo + length, lit),
                         !.output_offset = oo + length]
       ELSE LET data == read_number_io(actions, a.pos)
            IN IF data.val = None THEN [d EXCEPT !.apos = data.pos, !.err = "TypeError"]
               ELSE IF cmd = 2
               THEN LET sro == d.source_relative_offset + SignedOffset(data.val)
                    IN [d EXCEPT !.apos = data.pos,
                                 !.target = PySliceAssign(d.target, oo, oo + length,
                                                          PySlice(src, sro, sro + length)),
                                 !.output_offset = oo + length,
                                 !.source_relative_offset = sro + length,
                                 !.target_relative_offset = sro + length]
               ELSE [d EXCEPT !.apos = data.pos,
                              !.target_relative_offset =
                                  d.target_relative_offset + SignedOffset(data.val),
                              !.copy_left = length]

\* one turn of patch_rom's loop: read the action and perform it (for a
\* TargetCopy: move the cursor; its bytes are copied one by one, see CopyByte)
DecodeAction(d, actions, src) ==
    LET a == read_number_io(actions, d.apos)
        cmd == BitAnd(a.val, 3)
        length == (a.val \div 4) + 1
        oo == d.output_offset
    IN IF a.val = None THEN [d EXCEPT !.apos = a.pos, !.done = TRUE]
       ELSE IF cmd = 0
       THEN [d EXCEPT !.apos = a.pos,
                      !.target = PySliceAssign(d.target, oo, oo + length,
                                               PySlice(src, oo, oo + length)),
                      !.output_offset = oo + length]
       ELSE IF cmd = 1
       THEN LET lit == PySlice(actions, a.pos, a.pos + length)
            IN [d EXCEPT !.apos = a.pos + Len(lit),
                         !.target = PySliceAssign(d.target, oo, oo + length, lit),
                         !.output_offset = oo + length]
       ELSE LET data == read_number_io(actions, a.pos)
            IN IF data.val = None THEN [d EXCEPT !.apos = data.pos, !.err = "TypeError"]
               ELSE IF cmd = 2
               THEN LET sro == d.source_relative_offset + SignedOffset(data.val)
                    IN [d EXCEPT !.apos = data.pos,
                                 !.target = PySliceAssign(d.target, oo, oo + length,
                                                          PySlice(src, sro, sro + length)),
                                 !.output_offset = oo + length,
                                 !.source_relative_offset = sro + length]
               ELSE [d EXCEPT !.apos = data.pos,
                              !.target_relative_offset =
                                  d.target_relative_offset + SignedOffset(data.val),
                              !.copy_left = length]

\* CopyByte reading one position ahead of target_relative_offset
CopyByte_ReadAhead(d) ==
    LET n == Len(d.target)
        tro == d.target_relative_offset + 1
    IN IF tro >= n \/ tro < -n \/ d.output_offset >= n
       THEN [d EXCEPT !.err = "IndexError"]
       ELSE [d EXCEPT !.target[d.output_offset + 1] =
                          PyIndex(d.target, IF tro < 0 THEN tro + n ELSE tro),
                      !.output_offset = d.output_offset + 1,
                      !.target_relative_offset = tro,
                      !.copy_left = d.copy_left - 1]

\* one turn of TargetCopy's loop: target[output_offset] = target[target_relative_offset]
CopyByte(d) ==
    LET n == Len(d.target)
        tro == d.target_relative_offset
    IN IF tro >= n \/ tro < -n \/ d.output_offset >= n
       THEN [d EXCEPT !.err = "IndexError"]
       ELSE [d EXCEPT !.target[d.output_offset + 1] =
                          PyIndex(d.target, IF tro < 0 THEN tro + n ELSE tro),
                      !.output_offset = d.output_offset + 1,
                      !.target_relative_offset = tro + 1,
                      !.copy_left = d.copy_left - 1]

\* the decoder's state in the variables
SetDecoder(d) ==
    /\ target' = d.target
    /\ apos' = d.apos
    /\ output_offset' = d.output_offset
    /\ source_relative_offset' = d.source_relative_offset
    /\ target_relative_offset' = d.target_relative_offset
    /\ copy_left' = d.copy_left
    /\ berr' = d.err
    /\ bpc' = IF d.err # "none" THEN "error" ELSE IF d.done THEN "finish" ELSE "loop"

CurrentDecoder ==
    Decoder(target, apos, output_offset, source_relative_offset,
            target_relative_offset, copy_left)

\* patch_rom: one action of the stream
PatchRomAction ==
    /\ bpc = "loop"
    /\ copy_left = 0
    /\ SetDecoder(DecodeAction(CurrentDecoder, bps.actions, source))
    /\ LET action == read_number_io(bps.actions, apos).val
       IN act' = IF action = None THEN act
                 ELSE [command |-> BitAnd(action, 3), length |-> (action \div 4) + 1]
    /\ UNCHANGED <<linkVars, calls, outcomes, patch, source, bps, crcLog, result>>

\* patch_rom: one byte of a TargetCopy
PatchRomCopyByte ==
    /\ bpc = "loop"
    /\ copy_left > 0
    /\ SetDecoder(CopyByte(CurrentDecoder))
    /\ UNCHANGED <<linkVars, act, calls, outcomes, patch, source, bps, crcLog, result>>

\* patch_rom returning the target without checking it
PatchRomFinish_Unchecked ==
    /\ bpc = "finish"
    /\ crcLog' = crcLog
    /\ bpc' = "returned" /\ berr' = berr /\ result' = target
    /\ UNCHANGED <<linkVars, act, calls, outcomes, patch, source, bps, target, apos, output_offset,
                   source_relative_offset, target_relative_offset, copy_left>>

\* patch_rom after its loop: the target checksum check and the return
PatchRomFinish ==
    /\ bpc = "finish"
    /\ crcLog' = Append(crcLog, "target")
    /\ IF crc32(target) # bps.target_checksum
       THEN bpc' = "error" /\ berr' = "InvalidPatch" /\ result' = result
       ELSE bpc' = "returned" /\ berr' = berr /\ result' = target
    /\ UNCHANGED <<linkVars, act, calls, outcomes, patch, source, bps, target, apos, output_offset,
                   source_relative_offset, target_relative_offset, copy_left>>

-----------------------------------------------------------------------------
(* The patches and sources the decoder is run on.                          *)

MaxActionBytes == 4   \* length of the action streams
MaxCont == 2          \* continuation (high bit clear) bytes in an action stream
MaxTarget == 3        \* declared target size

\* bytes of an action stream.  As an action / as a relative offset:
\* 128 SourceRead 1 / +0, 129 TargetRead 1 / -0, 130 SourceCopy 1 / +1,
\* 131 TargetCopy 1 / -1, 135 TargetCopy 2 / -3, 5 a continued number
ActionBytes == { 128, 129, 130, 131, 135, 5 }

RECURSIVE StreamsOfLen(_)
StreamsOfLen(n) ==
    IF n = 0 THEN { <<>> }
    ELSE { Append(s, b) : s \in StreamsOfLen(n - 1), b \in ActionBytes }

ActionStreams ==
    { s \in UNION { StreamsOfLen(n) : n \in 0..MaxActionBytes } :
        Cardinality({ i \in DOMAIN s : s[i] < 128 }) <= MaxCont }

ShortStreams == UNION { StreamsOfLen(n) : n \in 0..1 }

\* the source the patches are made for, one of another size, one of other content
GoodSource == <<10, 20>>
Sources == { GoodSource, <<10>>, <<10, 21>> }

\* the target the decoder produces, for the stored target checksum of a patch
RECURSIVE RunDecoder(_, _, _)
RunDecoder(d, actions, src) ==
    IF d.err # "none" \/ d.done THEN d
    ELSE IF d.copy_left > 0 THEN RunDecoder(CopyByte(d), actions, src)
    ELSE RunDecoder(DecodeAction(d, actions, src), actions, src)

DecodedTarget(tsize, actions) ==
    RunDecoder(Decoder(Zeros(tsize), 0, 0, 0, 0, 0), actions, GoodSource).target

\* a number below 128 as a one-byte number of the format
OneByteNumber(n) == 128 + n

\* a patch file: magic, sizes, metadata, actions and the three checksums;
\* tgt and sum choose the stored target and patch checksums: "ok" the right
\* one, "bad" a wrong one, and for the patch checksum "body" the CRC32 of the
\* bytes before the 12-byte checksum block
MakePatch(magic, tsize, meta, actions, tgt, sum) ==
    LET body == magic \o <<OneByteNumber(Len(GoodSource)), OneByteNumber(tsize),
                           OneByteNumber(Len(meta))>> \o meta \o actions
        tcrc == IF tgt = "ok" THEN crc32(DecodedTarget(tsize, actions)) ELSE <<1, 2, 3, 4>>
        pre == body \o crc32(GoodSource) \o tcrc
    IN pre \o (IF sum = "ok" THEN crc32(pre)
               ELSE IF sum = "body" THEN crc32(body)
               ELSE <<4, 3, 2, 1>>)

\* well-formed patches with every action stream, decoded from the right source
DecodeRuns ==
    { <<MakePatch(MAGIC_HEADER, MaxTarget, <<>>, a, "ok", "ok"), GoodSource>> :
        a \in ActionStreams }

\* patches with a wrong magic, a wrong checksum or metadata, on every source
CheckRuns ==
    { <<MakePatch(m, t, meta, a, tgt, sum), src>> :
        m \in { MAGIC_HEADER, <<88, 89, 90, 49>> }, t \in { 1, MaxTarget },
        meta \in { <<>>, <<109>> }, a \in ShortStreams,
        tgt \in { "ok", "bad" }, sum \in { "ok", "body", "bad" }, src \in Sources }

\* files too short to hold the checksum block
TruncatedRuns == { <<p, GoodSource>> : p \in { <<>>, <<88, 89>>, MAGIC_HEADER } }

\* BPSPatch(patch).patch_rom(source)
PatchInit ==
    /\ \E run \in DecodeRuns \cup CheckRuns \cup TruncatedRuns : BpsInit(run[1], run[2], "init")
    /\ LinkInit([name |-> "none"], "idle")

PatchNext ==
    \/ InitMagic \/ InitChecksum \/ InitParse
    \/ PatchRomBegin \/ PatchRomAction \/ PatchRomCopyByte \/ PatchRomFinish

SpecBPS == PatchInit /\ [][PatchNext]_vars

\* the caller calls patch_rom(source) again on the same object, having
\* noted how the call before ended
PatchRomAgain ==
    /\ bpc \in {"returned", "error"}
    /\ calls >= 1
    /\ outcomes' = Append(outcomes, [err |-> berr, result |-> result])
    /\ bpc' = "constructed"
    /\ berr' = "none"
    /\ result' = None
    /\ UNCHANGED <<linkVars, act, calls, patch, source, bps, target, apos, output_offset,
                   source_relative_offset, target_relative_offset, copy_left, crcLog>>

RepatchNext == PatchNext \/ PatchRomAgain

\* BPSPatch(patch), then patch_rom(source) up to MaxCalls times
SpecRepatch == PatchInit /\ [][RepatchNext]_vars

-----------------------------------------------------------------------------
(* The runs that build the image with the patch decoder: main with --test  *)
(* and the testrom script.                                                 *)

MaxTestRom == 2       \* length of the zeroed source get_test_rom patches

\* the names the two entry points give the image
STR_FIFO_TESTROM == <<102, 105, 102, 111, 95, 116, 101, 115, 116, 114, 111, 109, 46, 110, 101, 115>>
STR_TESTROM == <<116, 101, 115, 116, 114, 111, 109, 46, 110, 101, 115>>

\* rom = bytearray(TEST_ROM_LEN)
TestSource == Zeros(MaxTestRom)

\* an action stream that writes the image from literal bytes, and one that
\* writes all but its last byte and then repeats the byte before the last
LiteralActions(image) == <<128 + 4 * (Len(image) - 1) + 1>> \o image
CopyActions(image) ==
    <<128 + 4 * (Len(image) - 2) + 1>> \o SubSeq(image, 1, Len(image) - 1)
    \o <<131, 128 + 2 * (Len(image) - 2)>>

\* a patch for a source of ssize bytes with the given actions
MakeTestPatch(magic, ssize, tsize, actions, tgt, sum) ==
    LET body == magic \o <<OneByteNumber(ssize), OneByteNumber(tsize), OneByteNumber(0)>>
                \o actions
        decoded == RunDecoder(Decoder(Zeros(tsize), 0, 0, 0, 0, 0), actions, TestSource).target
        tcrc == IF tgt = "ok" THEN crc32(decoded) ELSE <<1, 2, 3, 4>>
        pre == body \o crc32(TestSource) \o tcrc
    IN pre \o (IF sum = "ok" THEN crc32(pre) ELSE <<4, 3, 2, 1>>)

\* the images the patches decode to: two the parser accepts, one without
\* the "NES" magic, one of mapper 255, one that ends inside the header
TestImages ==
    { RomHeader(1, 1, 1, 0) \o RomPayload(MaxRomData),
      RomHeader(0, 0, 0, 0) \o RomPayload(MaxRomData),
      <<88, 69, 83, 26>> \o Zeros(12),
      RomHeader(1, 1, 240, 240),
      <<78, 69, 83, 26>> }

TestPatches ==
    UNION { { MakeTestPatch(m, ss, Len(img), a, tgt, sum) :
                m \in { MAGIC_HEADER, <<88, 89, 90, 49>> },
                ss \in { MaxTestRom, MaxTestRom + 1 },
                a \in { LiteralActions(img), CopyActions(img) },
                tgt \in { "ok", "bad" }, sum \in { "ok", "bad" } } : img \in TestImages }

\* rom = get_test_rom() raised: the exception ends the run
Main_DecodeFailed ==
    /\ pc = "main"
    /\ bpc = "error"
    /\ pc' = "error"
    /\ err' = berr
    /\ UNCHANGED <<bpsVars, op, ret, wire, acks, map_idx, map_data, map_path, fileinfo,
                   rf_length, rf_offset, rf_data, openCount>>

\* the NesRom construction sending the select command first
Main_NesRom_SelectFirst ==
    /\ pc = "main"
    /\ bpc = "returned"
    /\ wire' = command(wire, CMD_SEL_GAME)
    /\ LET r == NesRom(result, op.rom_name)
       IN IF r.err # "none"
          THEN pc' = "error" /\ err' = r.err /\ op' = op
          ELSE pc' = "lg_name" /\ err' = err /\ op' = [name |-> "load_game", rom |-> r]
    /\ UNCHANGED <<bpsVars, ret, acks, map_idx, map_data, map_path, fileinfo,
                   rf_length, rf_offset, rf_data, openCount>>

\* rom = NesRom(rom=rom, name=...), then everdrive.load_game(rom), the call
Main_NesRom ==
    /\ pc = "main"
    /\ bpc = "returned"
    /\ LET r == NesRom(result, op.rom_name)
       IN IF r.err # "none"
          THEN pc' = "error" /\ err' = r.err /\ op' = op
          ELSE pc' = "lg_select" /\ err' = err /\ op' = [name |-> "load_game", rom |-> r]
    /\ UNCHANGED <<bpsVars, ret, wire, acks, map_idx, map_data, map_path, fileinfo,
                   rf_length, rf_offset, rf_data, openCount>>

MainInit ==
    /\ \E p \in TestPatches : BpsInit(p, TestSource, "init")
    /\ \E n \in { STR_FIFO_TESTROM, STR_TESTROM } : LinkInit([name |-> "main", rom_name |-> n], "main")

MainNext == PatchNext \/ Main_DecodeFailed \/ Main_NesRom \/ LoadGameNext

SpecMain == MainInit /\ [][MainNext]_vars

-----------------------------------------------------------------------------
(* The transmit operations, the image parser and the number decoder, one   *)
(* call each.                                                              *)

MaxChunks == 2        \* transmit_data payloads reach MaxChunks chunks and one byte
MaxNumberLen == 3     \* bytes of the streams read_number_io is called on

\* a payload of n bytes in which no two chunks hold the same bytes
Payload(n) == [i \in 1..n |-> ((i - 1) + ((i - 1) \div BLOCK_SIZE)) % 256]

\* payload lengths around the chunk boundaries
PayloadLengths ==
    { n \in { k * BLOCK_SIZE + d : k \in 0..MaxChunks, d \in { -1, 0, 1 } } : n >= 0 }

\* the strings sent as paths and names: empty, ASCII, and with a character
\* of two bytes
Messages == { <<>>, <<97>>, STR_MAPROUT, <<233, 46, 110>>, STR_USB \o <<233, 46, 110>> }

\* image files: every pair of small bank counts on a file that ends after a
\* few data bytes, files that hold all their banks, a file without the magic
ParsedRoms ==
    { RomHeader(p, c, 0, 0) \o RomPayload(MaxRomData) : p \in 0..2, c \in 0..2 }
    \cup { RomHeader(1, 1, 0, 0) \o RomPayload(16384 + 8192),
           RomHeader(2, 0, 0, 0) \o RomPayload(32768 + MaxRomData),
           <<88, 69, 83, 26>> \o Zeros(12) }

\* the bytes of the number streams: ends of numbers and continued bytes
NumberBytes == { 0, 5, 127, 128, 133, 255 }

RECURSIVE NumberStreamsOfLen(_)
NumberStreamsOfLen(n) ==
    IF n = 0 THEN { <<>> }
    ELSE { Append(s, b) : s \in NumberStreamsOfLen(n - 1), b \in NumberBytes }

NumberStreams == UNION { NumberStreamsOfLen(n) : n \in 0..MaxNumberLen }

Call_transmit_command ==
    /\ pc = "call" /\ op.name = "transmit_command"
    /\ Return(Ok(transmit_command(wire, op.command), None))

Call_transmit_data ==
    /\ pc = "call" /\ op.name = "transmit_data"
    /\ Return(Ok(transmit_data(wire, op.data), None))

Call_transmit_string ==
    /\ pc = "call" /\ op.name = "transmit_string"
    /\ Return(Ok(transmit_string(wire, op.message), None))

Call_transmit_string_fifo ==
    /\ pc = "call" /\ op.name = "transmit_string_fifo"
    /\ Return(Ok(transmit_string_fifo(wire, op.message), None))

Call_memory_write ==
    /\ pc = "call" /\ op.name = "memory_write"
    /\ Return(Ok(memory_write(wire, op.address, op.data), None))

Call_open_file ==
    /\ pc = "call" /\ op.name = "open_file"
    /\ \E got \in StatusReplies : Return(open_file(wire, op.path, FAT_READ, got))

\* NesRom(rom=rom, name=name)
Call_NesRom ==
    /\ pc = "call" /\ op.name = "NesRom"
    /\ LET r == NesRom(op.rom, <<97>>)
       IN Return([wire |-> wire, err |-> r.err, val |-> r])

\* read_number_io(io.BytesIO(b))
Call_read_number_io ==
    /\ pc = "call" /\ op.name = "read_number_io"
    /\ Return(Ok(wire, read_number_io(op.b, 0).val))

CallOps ==
    { [name |-> "transmit_command", command |-> c] : c \in 0..255 }
    \cup { [name |-> "transmit_data", data |-> Payload(n)] : n \in PayloadLengths }
    \cup { [name |-> n, message |-> m] :
             n \in { "transmit_string", "transmit_string_fifo" }, m \in Messages }
    \cup { [name |-> "memory_write", address |-> ADDR_CHR, data |-> FileBytes(n)] : n \in { 0, 3 } }
    \cup { [name |-> "open_file", path |-> m] : m \in Messages }
    \cup { [name |-> "NesRom", rom |-> r] : r \in ParsedRoms }
    \cup { [name |-> "read_number_io", b |-> b] : b \in NumberStreams }

CallInit ==
    /\ \E o \in CallOps : LinkInit(o, "call")
    /\ NoPatch

CallNext ==
    \/ Call_transmit_command \/ Call_transmit_data \/ Call_transmit_string
    \/ Call_transmit_string_fifo \/ Call_memory_write \/ Call_open_file
    \/ Call_NesRom \/ Call_read_number_io

SpecCalls == CallInit /\ [][CallNext]_vars

-----------------------------------------------------------------------------
(* read_number on the encodings of numbers.                                *)

MaxNumber == 300      \* the numbers 0..MaxNumber are encoded and read back

\* the biased base-128 encoding of n: seven bits per byte, least first, one
\* taken off the rest after each continued byte, the last byte marked by
\* its high bit
RECURSIVE EncodeNumber(_)
EncodeNumber(n) ==
    IF n < 128 THEN <<128 + n>> ELSE <<n % 128>> \o EncodeNumber((n \div 128) - 1)

\* 0..MaxNumber and the numbers around the first three-byte and the first
\* four-byte encoding
NumberRange ==
    0..MaxNumber \cup { 16383, 16384, 16511, 16512, 16513, 2113663, 2113664, 2113665 }

\* what follows the number in the bytes read_number is given
Remainders == { <<>>, <<5>>, <<128, 7>> }

\* read_number(b)
Call_read_number ==
    /\ pc = "call" /\ op.name = "read_number"
    /\ LET r == read_number(op.b)
       IN Return(Ok(wire, <<r.val, r.rest>>))

NumberInit ==
    /\ \E n \in NumberRange, t \in Remainders :
          LinkInit([name |-> "read_number", n |-> n, rest |-> t, b |-> EncodeNumber(n) \o t], "call")
    /\ NoPatch

SpecNumbers == NumberInit /\ [][Call_read_number]_vars

-----------------------------------------------------------------------------
(* Properties of load_game (Spec).                                         *)

\* what the properties expect on the link, written out byte by byte
ExpW(bytes) == [d |-> "w", n |-> Len(bytes), b |-> bytes]
ExpR(n) == [d |-> "r", n |-> n, b |-> <<>>]
ExpFrame(c) == ExpW(<<43, 212, c, 255 - c>>)
ExpChunks(data) ==
    [k \in 1..((Len(data) + 8191) \div 8192) |->
        ExpW(SubSeq(data, 8192 * (k - 1) + 1, Min(8192 * k, Len(data))))]
ExpMemWrite(addr4, data) ==
    <<ExpFrame(26), ExpW(addr4), ExpW(ToBytesLE(Len(data), 4)), ExpW(<<0>>)>> \o ExpChunks(data)
ExpFifo(data) == ExpMemWrite(<<0, 0, 129, 1>>, data)
ExpStatus == <<ExpFrame(16), ExpR(2)>>
ExpOpen(path) ==
    <<ExpFrame(201), ExpW(<<1>>), ExpW(<<Len(path), 0>>), ExpW(path)>> \o ExpStatus

\* a log agrees with an expectation: the same writes with the same bytes and
\* the same reads of the same lengths, in the same order
WireMatches(w, e) ==
    /\ Len(w) = Len(e)
    /\ \A i \in 1..Len(e) :
          /\ w[i].d = e[i].d
          /\ w[i].n = e[i].n
          /\ (e[i].d = "w" => w[i].b = e[i].b)

\* load_game's operations through the name-length read of file_info
ExpLoadGameHead ==
    ExpFifo(<<42, 110>>)
    \o ExpFifo(<<Len(op.rom.name) + 4, 0>>) \o ExpFifo(<<85, 83, 66, 58>> \o Utf8Encode(op.rom.name))
    \o <<ExpR(1)>>
    \o ExpFifo(PyUpTo(op.rom.rom, 32) \o ToBytesLE(Len(op.rom.rom), 4)
               \o crc32(PyFrom(op.rom.rom, 16)) \o <<16, 0, 0, 0>>)
    \o <<ExpR(1), ExpR(2)>>
    \o ExpFifo(<<42, 115>>)
    \o <<ExpR(1)>>
    \o ExpMemWrite(<<0, 0, 0, 0>>, op.rom.prg)
    \o ExpMemWrite(<<0, 0, 128, 0>>, op.rom.chr)
    \o ExpOpen(STR_MAPROUT)
    \o <<ExpFrame(202), ExpW(<<0, 16, 0, 0>>), ExpR(1), ExpR(4096)>>
    \o <<ExpFrame(206)>> \o ExpStatus
    \o <<ExpFrame(208), ExpW(<<Len(map_path), 0>>), ExpW(map_path)>>
    \o <<ExpR(1), ExpR(4), ExpR(2), ExpR(2), ExpR(1), ExpR(2)>>

\* the rest: the name read of the length the device announced, the open of
\* the bitstream, the configuration load with the four size bytes file_info
\* received, the status query
ExpLoadGameTail(w, h) ==
    LET nlen == w[h].b
        size4 == w[h - 4].b
    IN <<ExpR(nlen[1] + 256 * nlen[2])>>
       \o ExpOpen(map_path)
       \o <<ExpFrame(31), ExpW(size4), ExpW(<<0>>)>> \o ExpStatus

\* C1: a load_game that completes without error has performed, once each and
\* in this order: FIFO select-game, FIFO "USB:<name>" with its length prefix,
\* a 1-byte read, FIFO identifier blob, a 1-byte read, the 2-byte mapper
\* index read, FIFO run-game, a 1-byte read, memory-write of PRG at 0x0000000,
\* memory-write of CHR at 0x0800000, open / read 4096 / close of
\* EDN8/MAPROUT.BIN, file-info and open of the bitstream path, the
\* configuration load with the size file-info returned, the status query.
C1_LoadGameSequence ==
    (op.name = "load_game" /\ pc = "done") =>
        LET head == ExpLoadGameHead
        IN /\ err = "none"
           /\ Len(wire) > Len(head)
           /\ WireMatches(wire, head \o ExpLoadGameTail(wire, Len(head)))

\* a completed load_game of an image whose PRG takes two chunks and whose CHR
\* is not empty
C1_Witness ==
    /\ op.name = "load_game" /\ pc = "done"
    /\ Len(op.rom.prg) > BLOCK_SIZE /\ Len(op.rom.chr) > 0

\* C2 (as claimed): a non-zero ack byte aborts load_game
C2_NonZeroAckAborts ==
    (op.name = "load_game" /\ \E i \in DOMAIN acks : acks[i] # 0) => pc = "error"

\* C3: once a step of load_game has failed, nothing more goes over the link:
\* no retry, no close, no reset
C3_NoTransmitAfterFailure == [][err # "none" => wire' = wire]_vars

\* a failed status check during load_game, the failing reply being the last
\* thing on the link
C3_Witness ==
    /\ op.name = "load_game" /\ pc = "error"
    /\ err \in {"OperationError", "UnexpectedResponse", "FileAccessError", "FileReadError"}
    /\ wire[Len(wire)].d = "r"

\* C4: at most one remote file is open at any time during load_game
C4_AtMostOneOpenFile == openCount \in {0, 1}

\* the bitstream file is open, the lookup-table file having been closed
C4_Witness == op.name = "load_game" /\ pc = "fpg_cfg" /\ openCount = 1

-----------------------------------------------------------------------------
(* Properties of the status query (SpecStatus).                            *)

\* the 16-bit reply get_status read, as a number
StatusReply == LET b == wire[Len(wire)].b IN b[1] + 256 * b[2]

\* C5: get_status returns r & 0xFF iff the high byte of the reply r is 0xA5
\* and raises otherwise; check_status raises iff get_status raised or
\* returned a non-zero code
C5_StatusDecode ==
    (pc \in {"done", "error"} /\ op.name \in {"get_status", "check_status"}
        /\ Len(wire[Len(wire)].b) = 2) =>
        LET r == StatusReply
            g == get_status(<<>>, wire[Len(wire)].b)
        IN /\ (g.err = "none") <=> (r \div 256 = 165)
           /\ g.err = "none" => g.val = r % 256
           /\ op.name = "get_status" => (err = g.err /\ ret = g.val)
           /\ op.name = "check_status" => ((err # "none") <=> (g.err # "none" \/ g.val # 0))

\* the reply 0xA503 decoded to the code 3
C5_Witness ==
    /\ op.name = "get_status" /\ pc = "done" /\ ret = 3
    /\ wire[Len(wire)].b = <<3, 165>>

-----------------------------------------------------------------------------
(* Properties of the receive operations (SpecLink).                        *)

\* the reads of a read_file: everything after the command frame and the length
ReadFileReads == SubSeq(wire, 3, Len(wire))

\* the size of sub-block k (1-based) of a read of the given length
SubBlockSize(length, k) == Min(4096, length - 4096 * (k - 1))

\* C6: read_file reads one status byte before each sub-block of 4096 bytes
\* (the last one shorter): a read that succeeds has consumed ceil(length/4096)
\* status bytes, each followed by its sub-block; the first non-zero status
\* byte ends the read with an error, nothing further is requested and no
\* data is returned
C6_ReadFileStatusGated ==
    (op.name = "read_file" /\ pc # "call") =>
        LET rd == ReadFileReads
            blocks == (op.length + 4095) \div 4096
        IN /\ wire[1] = ExpFrame(202)
           /\ wire[2] = ExpW(ToBytesLE(op.length, 4))
           /\ \A i \in 1..Len(rd) :
                 /\ rd[i].d = "r"
                 /\ i % 2 = 1 => rd[i].n = 1
                 /\ i % 2 = 0 => /\ rd[i].n = SubBlockSize(op.length, i \div 2)
                                 /\ rd[i - 1].b = <<0>>
                 /\ (i % 2 = 1 /\ rd[i].b # <<0>>) =>
                        i = Len(rd) /\ pc = "error" /\ ret = None
           /\ pc = "done" => Len(rd) = 2 * blocks /\ err = "none"
           /\ Len(rd) <= 2 * blocks

\* a read of more than two sub-blocks that succeeded
C6_Witness ==
    /\ op.name = "read_file" /\ pc = "done" /\ op.length > 2 * FILE_BLOCK
    /\ Len(ReadFileReads) = 6

\* a read on the link that delivered fewer bytes than requested
ShortRead == \E i \in DOMAIN wire : wire[i].d = "r" /\ Len(wire[i].b) < wire[i].n

\* C7 (as claimed): an operation that received fewer bytes than it requested
\* ends in an error
C7_ShortReadIsError == (pc = "done" /\ ShortRead) => err # "none"

-----------------------------------------------------------------------------
(* Properties of the patch decoder (SpecBPS).                              *)

\* a file without its last k bytes, and its last four bytes
AllButLast(p, k) == SubSeq(p, 1, Len(p) - k)
LastFour(p) == SubSeq(p, Len(p) - 3, Len(p))

\* __init__ has passed its patch checksum check
PatchAccepted == bpc \in {"init_parse", "constructed", "loop", "finish", "returned"}
                 \/ (bpc = "error" /\ bps.source_size # None)

\* no size, metadata or action field has been parsed and nothing was patched
NothingParsed ==
    /\ bps.source_size = None /\ bps.target_size = None /\ bps.metadata_size = None
    /\ bps.metadata = <<>> /\ bps.actions = <<>>
    /\ target = <<>> /\ apos = 0 /\ result = None

\* C8 (amended): BPSPatch construction accepts a patch only if its last four
\* bytes are the CRC32 of every byte preceding those four bytes (the stored
\* source and target checksums included); on a mismatch it raises
\* InvalidPatch before any size, metadata or action field is parsed and
\* before any patching
C8_PatchChecksumGate ==
    /\ PatchAccepted =>
          Len(patch) >= 4 /\ LastFour(patch) = crc32(AllButLast(patch, 4))
    /\ (bpc \notin {"idle", "init", "init_checksum"} /\ crcLog # <<>>
            /\ (Len(patch) < 4 \/ LastFour(patch) # crc32(AllButLast(patch, 4)))) =>
          bpc = "error" /\ berr = "InvalidPatch" /\ crcLog = <<"patch">> /\ NothingParsed

\* a patch that was accepted although its last four bytes are not the CRC32
\* of the bytes before the 12-byte checksum block
C8_Witness ==
    /\ bpc = "constructed" /\ Len(bps.actions) > 0
    /\ LastFour(patch) # crc32(AllButLast(patch, 12))

\* C8 (as claimed): an accepted patch stores the CRC32 of the bytes preceding
\* the trailing 12-byte checksum block
C8_ChecksumBeforeBlock ==
    PatchAccepted => LastFour(patch) = crc32(AllButLast(patch, 12))

\* patch_rom has computed the CRC32 of the target
TargetChecked == crcLog # <<>> /\ crcLog[Len(crcLog)] = "target"

\* C9: a source whose CRC32 differs from sourceChecksum makes patch_rom raise
\* InvalidPatch before any action is decoded; the CRC32 of the target is
\* taken only when the whole action stream has been processed, and on a
\* mismatch InvalidPatch is raised and no target is returned
C9_SourceBeforeTargetAfter ==
    /\ (bps.source_checksum # <<>> /\ crc32(source) # bps.source_checksum) =>
          /\ bpc \notin {"loop", "finish", "returned"}
          /\ apos = 0 /\ copy_left = 0 /\ target = <<>> /\ result = None
          /\ ~TargetChecked
          /\ crcLog = <<"patch", "source">> => bpc = "error" /\ berr = "InvalidPatch"
    /\ TargetChecked =>
          /\ crcLog = <<"patch", "source", "target">>
          /\ apos = Len(bps.actions) /\ copy_left = 0
          /\ bpc \in {"error", "returned"}
    /\ (TargetChecked /\ crc32(target) # bps.target_checksum) =>
          bpc = "error" /\ berr = "InvalidPatch" /\ result = None
    /\ bpc = "returned" => TargetChecked /\ result = target
                           /\ crc32(result) = bps.target_checksum

\* a patch whose actions were all decoded and whose target then failed the
\* checksum
C9_Witness ==
    /\ bpc = "error" /\ berr = "InvalidPatch" /\ TargetChecked
    /\ Len(bps.actions) > 0 /\ apos = Len(bps.actions)
    /\ crc32(target) # bps.target_checksum

\* C10: a patch whose first four bytes are not "BPS1" makes the construction
\* raise InvalidPatch before any CRC32 is computed and before any size,
\* metadata or action field is read
C10_BadMagicFailsFirst ==
    (bpc \notin {"idle", "init"} /\ SubSeq(patch, 1, Min(4, Len(patch))) # <<66, 80, 83, 49>>) =>
        /\ bpc = "error" /\ berr = "InvalidPatch"
        /\ crcLog = <<>>
        /\ bps = NoFields /\ NothingParsed

\* a rejected patch that is sound but for its magic: its sizes fit and its
\* patch checksum is right
C10_Witness ==
    /\ bpc = "error" /\ crcLog = <<>>
    /\ Len(patch) > 16 /\ SubSeq(patch, 1, 4) = <<88, 89, 90, 49>>
    /\ LastFour(patch) = crc32(AllButLast(patch, 4))

\* the action stream a, from position pos on, is a sequence of complete
\* actions: every number ends in a byte with the high bit set, every copy
\* has its offset number, every TargetRead has all its literal bytes
RECURSIVE CompleteFrom(_, _)
CompleteFrom(a, pos) ==
    IF pos >= Len(a) THEN TRUE
    ELSE LET n == read_number_io(a, pos)
             length == (n.val \div 4) + 1
             d == read_number_io(a, n.pos)
         IN IF n.val = None THEN FALSE
            ELSE IF n.val % 4 = 0 THEN CompleteFrom(a, n.pos)
            ELSE IF n.val % 4 = 1
            THEN n.pos + length <= Len(a) /\ CompleteFrom(a, n.pos + length)
            ELSE d.val # None /\ CompleteFrom(a, d.pos)

\* C11 (as claimed): when patch_rom has left its loop and returned a target,
\* the action stream was consumed to its end by complete actions
C11_StreamConsumedByCompleteActions ==
    bpc = "returned" => apos = Len(bps.actions) /\ CompleteFrom(bps.actions, 0)

\* C12: patch_rom changes neither the source nor the patch nor any field of
\* the BPSPatch object, and every call of it on the same object and source
\* ends as the first one did: with the same target, or with the same error
C12_PatchRomPure ==
    [][ /\ (calls >= 1 \/ bpc = "constructed") =>
              bps' = bps /\ source' = source /\ patch' = patch
        /\ \A i \in DOMAIN outcomes' : outcomes'[i] = outcomes'[1] ]_vars

\* two calls that both returned a target the decoder has written to
C12_Witness ==
    /\ Len(outcomes) = 2
    /\ outcomes[2].err = "none"
    /\ \E i \in DOMAIN outcomes[2].result : outcomes[2].result[i] # 0

-----------------------------------------------------------------------------
(* Properties of the runs that build the image by patching (SpecMain).     *)

\* C13: when the patch decoder raises or the image parser rejects the
\* decoded image, nothing has been or will be written to the serial link;
\* whatever load_game transmits, it transmits after the decoder returned
\* the image and the parser accepted it
C13_NoLinkTrafficBeforeImage ==
    /\ (bpc = "error" \/ op.name = "main") => wire = <<>>
    /\ wire # <<>> =>
          /\ bpc = "returned" /\ berr = "none"
          /\ op.name = "load_game" /\ op.rom.rom = result
          /\ SubSeq(result, 1, 3) = <<78, 69, 83>>

\* a run that ended because the decoded target failed its checksum
C13_Witness ==
    /\ op.name = "main" /\ pc = "error" /\ err = "InvalidPatch"
    /\ crcLog = <<"patch", "source", "target">>

-----------------------------------------------------------------------------
(* Properties of single calls (SpecCalls) and of the bitstream path (Spec). *)

\* C14: transmit_command(c) writes, for every c in 0..255, the four bytes
\* 0x2B, 0xFF - 0x2B, c, 0xFF - c as one write and nothing else; in the
\* operations that send a command, that frame is the first thing written
C14_CommandFrame ==
    /\ (op.name = "transmit_command" /\ pc = "done") =>
          wire = <<ExpW(<<43, 255 - 43, op.command, 255 - op.command>>)>>
    /\ (op.name = "memory_write" /\ pc = "done") =>
          Len(wire) >= 4 /\ wire[1] = ExpW(<<43, 212, 26, 229>>)
    /\ (op.name = "open_file" /\ pc \in {"done", "error"}) =>
          Len(wire) >= 3 /\ wire[1] = ExpW(<<43, 212, 201, 54>>)

\* the frame of the command byte 0xFF, whose complement is 0
C14_Witness ==
    /\ op.name = "transmit_command" /\ pc = "done" /\ op.command = 255
    /\ wire[1].b[4] = 0

\* C15 (amended): byte 1 of every command frame written by
\* transmit_command has the value 0xD4
C15_FrameByteOneIsD4 ==
    (op.name = "transmit_command" /\ pc = "done") => wire[1].b[2] = 212

\* the frame of the status query
C15_Witness ==
    /\ op.name = "transmit_command" /\ pc = "done" /\ op.command = 16
    /\ wire[1].b[1] = 43

\* C15 (as claimed): byte 1 of every command frame has the value 0x96
C15_FrameByteOneIs96 ==
    (op.name = "transmit_command" /\ pc = "done") => wire[1].b[2] = 150

\* the payload written at position i of the log, if there is one
PayloadAt(i) == IF Len(wire) >= i THEN wire[i].b ELSE <<>>

\* C16 (as claimed): the 16-bit little-endian prefix transmit_string and
\* transmit_string_fifo send is the number of payload bytes sent after it
C16_PrefixIsPayloadLength ==
    /\ (op.name = "transmit_string" /\ pc = "done") =>
          wire[1].b[1] + 256 * wire[1].b[2] = Len(PayloadAt(2))
    /\ (op.name = "transmit_string_fifo" /\ pc = "done") =>
          wire[5].b[1] + 256 * wire[5].b[2] = Len(PayloadAt(10))

\* C17: transmit_data(payload) makes ceil(len/8192) writes, each of 8192
\* bytes but for the last, which holds the rest; written one after the
\* other they are the payload; an empty payload is not written at all
C17_TransmitDataChunks ==
    (op.name = "transmit_data" /\ pc = "done") =>
        LET n == Len(op.data)
            k == (n + 8191) \div 8192
        IN /\ Len(wire) = k
           /\ \A i \in 1..k :
                 /\ wire[i].d = "w"
                 /\ wire[i].n = Len(wire[i].b)
                 /\ Len(wire[i].b) = IF i < k THEN 8192 ELSE n - 8192 * (k - 1)
           /\ \A j \in 1..n : wire[((j - 1) \div 8192) + 1].b[((j - 1) % 8192) + 1] = op.data[j]

\* a payload of two full chunks and one byte
C17_Witness ==
    /\ op.name = "transmit_data" /\ pc = "done"
    /\ Len(op.data) = 2 * 8192 + 1 /\ Len(wire) = 3 /\ Len(wire[3].b) = 1

\* the bytes of a file at the 0-based offsets lo .. hi-1, as far as it has them
FileRange(f, lo, hi) ==
    IF lo >= Len(f) \/ hi <= lo THEN <<>> ELSE SubSeq(f, lo + 1, Min(hi, Len(f)))

\* C18 (amended): for every accepted header chrSize is the CHR count times
\* 8192 and prgSize is the PRG count times 16384, but 0x400000 when the PRG
\* count is 0; prgBytes and chrBytes are the bytes of the image at
\* [16, 16+prgSize) and [16+prgSize, 16+prgSize+chrSize), as far as the
\* image reaches
C18_BankSizesAndSlices ==
    (op.name = "NesRom" /\ pc = "done") =>
        LET prg == IF op.rom[5] = 0 THEN 4194304 ELSE op.rom[5] * 16384
            chr == op.rom[6] * 8192
        IN /\ ret.prg_size = prg
           /\ ret.chr_size = chr
           /\ ret.prg = FileRange(op.rom, 16, 16 + prg)
           /\ ret.chr = FileRange(op.rom, 16 + prg, 16 + prg + chr)

\* a header with PRG count 2 and CHR count 0 on a file that holds the banks
C18_Witness ==
    /\ op.name = "NesRom" /\ pc = "done"
    /\ op.rom[5] = 2 /\ op.rom[6] = 0
    /\ ret.prg_size = 32768 /\ Len(ret.prg) = 32768 /\ ret.chr = <<>>

\* C18 (as claimed): for every accepted header prgSize is the PRG count
\* times 16384 and chrSize the CHR count times 8192
C18_SizesAreCountTimesBank ==
    (op.name = "NesRom" /\ pc = "done") =>
        ret.prg_size = op.rom[5] * 16384 /\ ret.chr_size = op.rom[6] * 8192

\* "EDN8/MAPS/", p as three decimal digits, ".RBF"
ThreeDigitPath(p) ==
    <<69, 68, 78, 56, 47, 77, 65, 80, 83, 47>>
    \o <<48 + (p \div 100), 48 + ((p \div 10) % 10), 48 + (p % 10)>>
    \o <<46, 82, 66, 70>>

\* map_load_sdc has read and closed the lookup table and indexed it
TableIndexed ==
    /\ op.name = "load_game"
    /\ \/ pc \in {"fpg_info", "fpg_open", "fpg_cfg", "done"}
       \/ /\ pc = "error" /\ err = "IndexError"
          /\ wire[Len(wire)].d = "r" /\ Len(wire[Len(wire)].b) = wire[Len(wire)].n

\* C19 (amended): for every mapper index m below the length of the table
\* map_load_sdc received, it selects p = the m-th byte of the table and
\* initialises the bitstream at "EDN8/MAPS/" + p in three digits + ".RBF";
\* for any other m it raises IndexError and asks for no bitstream
C19_BitstreamPath ==
    op.name = "load_game" =>
        /\ map_path # <<>> =>
              /\ map_idx < Len(map_data)
              /\ map_path = ThreeDigitPath(map_data[map_idx + 1])
        /\ pc \in {"fpg_info", "fpg_open", "fpg_cfg", "done"} => map_path # <<>>
        /\ pc \in {"fpg_open", "fpg_cfg", "done"} =>
              \E i \in 3..Len(wire) :
                 /\ wire[i] = ExpW(map_path)
                 /\ wire[i - 1] = ExpW(<<Len(map_path), 0>>)
                 /\ wire[i - 2] = ExpFrame(208)
        /\ (TableIndexed /\ pc = "error" /\ err = "IndexError") =>
              /\ map_idx >= Len(map_data)
              /\ map_path = <<>>
              /\ \A i \in DOMAIN wire : wire[i] # ExpFrame(208)

\* the mapper index 5 on the table whose byte 5 is 5: EDN8/MAPS/005.RBF
C19_Witness ==
    /\ op.name = "load_game" /\ pc = "done" /\ map_idx = 5
    /\ map_path = <<69, 68, 78, 56, 47, 77, 65, 80, 83, 47, 48, 48, 53, 46, 82, 66, 70>>

\* C19 (as claimed): for every 2-byte mapper index m and every 4096-byte
\* table, map_load_sdc selects the m-th byte of the table and derives the
\* path from it
C19_PathForEveryIndex ==
    (TableIndexed /\ Len(map_data) = 4096) =>
        /\ map_idx < Len(map_data)
        /\ map_path = ThreeDigitPath(map_data[map_idx + 1])

\* 128 to the power n
RECURSIVE Pow128(_)
Pow128(n) == IF n = 0 THEN 1 ELSE 128 * Pow128(n - 1)

\* the position (1-based) of the first byte of b with the high bit set, 0 if none
RECURSIVE FirstEnd(_, _)
FirstEnd(b, i) == IF i > Len(b) THEN 0 ELSE IF b[i] >= 128 THEN i ELSE FirstEnd(b, i + 1)

\* the low seven bits of the first k bytes of b as base-128 digits, least first
RECURSIVE Digits(_, _)
Digits(b, k) == IF k = 0 THEN 0 ELSE Digits(b, k - 1) + (b[k] % 128) * Pow128(k - 1)

\* the sum of 128^(i+e) over the continued bytes i = 0 .. k-2 of a number of k bytes
RECURSIVE Bias(_, _)
Bias(k, e) == IF k <= 1 THEN 0 ELSE Bias(k - 1, e) + Pow128(k - 2 + e)

\* C20 (amended): after each continued byte the shift is multiplied by 128
\* first and the new shift is added to the value afterwards
\* ('shift <<= 7; value += shift'): continued byte i (from 0) adds 128^(i+1)
C20_BiasAfterShift ==
    (op.name = "read_number_io" /\ pc = "done") =>
        LET k == FirstEnd(op.b, 1)
        IN ret = IF k = 0 THEN None ELSE Digits(op.b, k) + Bias(k, 1)

\* the bytes 0x05 0x80 decode to 5 + 128 = 133
C20_Witness ==
    /\ op.name = "read_number_io" /\ pc = "done"
    /\ op.b = <<5, 128>> /\ ret = 133

\* C20 (as claimed): after each continued byte the current shift is added
\* to the value first and multiplied by 128 afterwards
\* ('value += shift; shift <<= 7'): continued byte i (from 0) adds 128^i
C20_BiasBeforeShift ==
    (op.name = "read_number_io" /\ pc = "done") =>
        LET k == FirstEnd(op.b, 1)
        IN ret = IF k = 0 THEN None ELSE Digits(op.b, k) + Bias(k, 0)

-----------------------------------------------------------------------------
(* Properties of the number decoder on encodings (SpecNumbers).            *)

\* C21: reading the encoding of n returns n and leaves exactly the bytes
\* that follow the encoding; no other number of the range has an encoding
\* that reads as n
C21_NumberRoundTrip ==
    (op.name = "read_number" /\ pc = "done") =>
        /\ ret = <<op.n, op.rest>>
        /\ \A m \in NumberRange :
              m # op.n => /\ EncodeNumber(m) # EncodeNumber(op.n)
                          /\ read_number_io(EncodeNumber(m), 0).val # ret[1]

\* the first number of three bytes, read back with bytes following it
C21_Witness ==
    /\ op.name = "read_number" /\ pc = "done"
    /\ op.n = 16512 /\ op.b = <<0, 0, 128, 128, 7>>
    /\ ret = <<16512, <<128, 7>>>>

-----------------------------------------------------------------------------
(* Properties of the decoder's actions (SpecBPS).                          *)

\* the loop is inside or just past a TargetCopy whose offset was read
InTargetCopy ==
    /\ bpc \in {"loop", "error", "finish", "returned"}
    /\ act.command = 3
    /\ berr # "TypeError"

\* the bytes the current TargetCopy has copied so far
Copied == act.length - copy_left

\* C22 (as claimed): every byte a TargetCopy copies is read from the
\* already-written region of the target: the byte copied last was read at
\* target_relative_offset - 1 while output_offset - 1 bytes were written, so
\* 0 <= target_relative_offset - 1 < output_offset - 1
C22_CopyReadsWrittenRegion ==
    (InTargetCopy /\ Copied >= 1) =>
        /\ 0 <= target_relative_offset - 1
        /\ target_relative_offset - 1 < output_offset - 1

\* the signed offset of a copy action, from the number that follows the action
DeltaAt(pos) ==
    LET data == read_number_io(bps.actions, pos).val
    IN IF data % 2 = 1 THEN -(data \div 2) ELSE data \div 2

\* C23: SourceRead and TargetRead leave both relative cursors alone and move
\* output_offset by length; SourceCopy adds its signed offset and length to
\* source_relative_offset and leaves target_relative_offset alone; TargetCopy
\* adds its signed offset to target_relative_offset and then, for each of its
\* length bytes, adds one to target_relative_offset and to output_offset and
\* leaves source_relative_offset alone; length is (action >> 2) + 1
C23_CursorEffects ==
    [][ LET a == read_number_io(bps.actions, apos)
            cmd == a.val % 4
            length == (a.val \div 4) + 1
        IN /\ (bpc = "loop" /\ copy_left = 0 /\ bpc' = "loop" /\ a.val # None) =>
                 /\ cmd \in {0, 1} =>
                       /\ source_relative_offset' = source_relative_offset
                       /\ target_relative_offset' = target_relative_offset
                       /\ output_offset' = output_offset + length
                       /\ copy_left' = 0
                 /\ cmd = 2 =>
                       /\ source_relative_offset' =
                             source_relative_offset + DeltaAt(a.pos) + length
                       /\ target_relative_offset' = target_relative_offset
                       /\ output_offset' = output_offset + length
                       /\ copy_left' = 0
                 /\ cmd = 3 =>
                       /\ source_relative_offset' = source_relative_offset
                       /\ target_relative_offset' =
                             target_relative_offset + DeltaAt(a.pos)
                       /\ output_offset' = output_offset
                       /\ copy_left' = length
           /\ (bpc = "loop" /\ copy_left > 0 /\ bpc' = "loop") =>
                 /\ source_relative_offset' = source_relative_offset
                 /\ target_relative_offset' = target_relative_offset + 1
                 /\ output_offset' = output_offset + 1
                 /\ copy_left' = copy_left - 1
      ]_vars

\* a SourceCopy and then a finished TargetCopy have moved the two cursors
C23_Witness ==
    /\ bpc = "loop" /\ InTargetCopy /\ copy_left = 0
    /\ bps.actions = <<130, 130, 131, 130>>
    /\ source_relative_offset = 2
    /\ target_relative_offset = 2
    /\ output_offset = 2

\* C24: when a TargetCopy starts at the byte written last
\* (target_relative_offset = k, output_offset = k + 1), the bytes it has
\* copied, positions k+1 .. k+Copied, all hold the byte at position k
C24_RunLengthExpansion ==
    (/\ InTargetCopy /\ Copied >= 1
     /\ target_relative_offset = output_offset - 1
     /\ target_relative_offset - Copied >= 0) =>
        LET k == target_relative_offset - Copied
        IN \A i \in 1..Copied : PyIndex(target, k + i) = PyIndex(target, k)

\* one literal byte expanded to three by a TargetCopy of length 2
C24_Witness ==
    /\ bpc = "loop" /\ InTargetCopy
    /\ act.length = 2 /\ copy_left = 0
    /\ target_relative_offset = 2 /\ output_offset = 3
    /\ target = <<129, 129, 129>>

\* C25 (as claimed): the target patch_rom returns has the declared target
\* size and the loop ended with output_offset at that size
C25_ReturnedLengthIsTargetSize ==
    bpc = "returned" =>
        /\ Len(result) = bps.target_size
        /\ output_offset = bps.target_size

====
